---- MODULE Spec2Model ----
(***************************************************************************)
(* State-machine model of the in-memory REST resources of the seizure      *)
(* prediction web application: routes/appointments.py,                     *)
(* routes/medication.py and routes/progress.py.                            *)
(*                                                                         *)
(* A Python str is a sequence of one-character strings.  A JSON value of   *)
(* a request body is a tagged pair <<"str", s>>, <<"num", n>>,             *)
(* <<"list", l>>; a request body is a function from field names to JSON    *)
(* values, the empty function standing for a missing or empty body.       *)
(***************************************************************************)
EXTENDS Integers, Sequences, FiniteSets, TLC

VARIABLES appointments_db, medication_db, seizure_logs_db,
          uuid_counter, now, request, response,
          model, scaler, files, joblib_loads, load_succeeded, pc, frames

\* the state of routes/predict.py and of the two files it loads
predict_vars == <<model, scaler, files, joblib_loads, load_succeeded, pc>>

vars == <<appointments_db, medication_db, seizure_logs_db,
          uuid_counter, now, request, response, predict_vars, frames>>

\* request  : the operation and the URL id of the request handled last
\* response : what its handler returned
\* frames   : the local variables of the handlers that threads are running

-----------------------------------------------------------------------------
(* Bounds of the model *)

\* uuid4 values drawn in one run, hence entities ever created
MaxUuid == 2
\* days the clock may advance
MaxDays == 1

-----------------------------------------------------------------------------
(* Python str *)

\* the characters of the model, in code-point order
Alphabet == <<" ", "-", "0", "1", "2", "3", "4", "5", "6", "7", "8", "9", ":",
              "A", "B", "C", "D", "P", "a", "b", "c", "d", "e", "g", "h", "i", "l", "m",
              "n", "o", "p", "r", "s", "t", "u", "v", "x">>

Chars == {Alphabet[i] : i \in 1..Len(Alphabet)}

\* position of a character in code-point order
Ord == [c \in Chars |-> CHOOSE i \in 1..Len(Alphabet) : Alphabet[i] = c]

Digits == {"0", "1", "2", "3", "4", "5", "6", "7", "8", "9"}

IsDigit(c) == c \in Digits

DigitVal(c) == Ord[c] - Ord["0"]

\* str.__lt__ : lexicographic by code point, a proper prefix is smaller
RECURSIVE StrLess(_, _)
StrLess(s, t) ==
    IF t = <<>> THEN FALSE
    ELSE IF s = <<>> THEN TRUE
    ELSE IF Head(s) = Head(t) THEN StrLess(Tail(s), Tail(t))
    ELSE Ord[Head(s)] < Ord[Head(t)]

StrLessEq(s, t) == s = t \/ StrLess(s, t)

\* str.lower() on one character
LowerChar(c) ==
    CASE c = "A" -> "a"
      [] c = "B" -> "b"
      [] c = "C" -> "c"
      [] c = "D" -> "d"
      [] c = "P" -> "p"
      [] OTHER -> c

\* str.lower()
lower(s) == [i \in 1..Len(s) |-> LowerChar(s[i])]

\* str.strip() : drop leading and trailing whitespace
RECURSIVE lstrip(_)
lstrip(s) == IF s # <<>> /\ Head(s) = " " THEN lstrip(Tail(s)) ELSE s

RECURSIVE rstrip(_)
rstrip(s) ==
    IF s # <<>> /\ s[Len(s)] = " " THEN rstrip(SubSeq(s, 1, Len(s) - 1)) ELSE s

strip(s) == rstrip(lstrip(s))

-----------------------------------------------------------------------------
(* JSON values of a request body *)

Str(s) == <<"str", s>>
Num(n) == <<"num", n>>
List(l) == <<"list", l>>

IsStr(v) == v[1] = "str"
IsNum(v) == v[1] = "num"
IsList(v) == v[1] = "list"
Val(v) == v[2]

\* a body that request.get_json() gives as None or {} : `not data` holds
NoData == <<>>

Has(data, field) == field \in DOMAIN data

-----------------------------------------------------------------------------
(* datetime.strptime *)

\* value of a string of decimal digits
RECURSIVE DecVal(_)
DecVal(s) ==
    IF s = <<>> THEN 0 ELSE 10 * DecVal(SubSeq(s, 1, Len(s) - 1)) + DigitVal(s[Len(s)])

AllDigits(s) == \A i \in 1..Len(s) : IsDigit(s[i])

\* the positions of character c in s
Positions(s, c) == {i \in 1..Len(s) : s[i] = c}

\* %H : 2[0-3] | [0-1]\d | \d
MatchesH(s) ==
    /\ Len(s) \in {1, 2}
    /\ AllDigits(s)
    /\ Len(s) = 2 => DecVal(s) <= 23

\* %M : [0-5]\d | \d
MatchesM(s) ==
    /\ Len(s) \in {1, 2}
    /\ AllDigits(s)
    /\ Len(s) = 2 => DecVal(s) <= 59

\* %Y : \d\d\d\d
MatchesY(s) == Len(s) = 4 /\ AllDigits(s)

\* %m : 1[0-2] | 0[1-9] | [1-9]
MatchesMonth(s) ==
    /\ Len(s) \in {1, 2}
    /\ AllDigits(s)
    /\ DecVal(s) \in 1..12

\* %d : 3[01] | [12]\d | 0[1-9] | [1-9] | " "[1-9]
MatchesDay(s) ==
    \/ /\ Len(s) \in {1, 2}
       /\ AllDigits(s)
       /\ DecVal(s) \in 1..31
    \/ /\ Len(s) = 2
       /\ s[1] = " "
       /\ IsDigit(s[2])
       /\ DecVal(<<s[2]>>) \in 1..9

DayVal(s) == IF s[1] = " " THEN DecVal(<<s[2]>>) ELSE DecVal(s)

\* datetime.strptime(s, '%H:%M') does not raise ValueError (s a str)
TimeParses(s) ==
    \E i \in Positions(s, ":") :
        /\ MatchesH(SubSeq(s, 1, i - 1))
        /\ MatchesM(SubSeq(s, i + 1, Len(s)))

IsLeap(y) == (y % 4 = 0 /\ y % 100 # 0) \/ y % 400 = 0

DaysInMonth(y, m) ==
    CASE m \in {1, 3, 5, 7, 8, 10, 12} -> 31
      [] m \in {4, 6, 9, 11} -> 30
      [] OTHER -> IF IsLeap(y) THEN 29 ELSE 28

RECURSIVE DaysBeforeMonth(_, _)
DaysBeforeMonth(y, m) ==
    IF m = 1 THEN 0 ELSE DaysBeforeMonth(y, m - 1) + DaysInMonth(y, m - 1)

\* date.toordinal() : days since 0001-01-01, that day being 1
Ordinal(y, m, d) ==
    LET p == y - 1
    IN  p * 365 + (p \div 4) - (p \div 100) + (p \div 400) + DaysBeforeMonth(y, m) + d

\* the splits of s at two "-" into year, month and day parts that the
\* regular expression of '%Y-%m-%d' matches
DateSplits(s) ==
    {ij \in Positions(s, "-") \X Positions(s, "-") :
        /\ ij[1] < ij[2]
        /\ MatchesY(SubSeq(s, 1, ij[1] - 1))
        /\ MatchesMonth(SubSeq(s, ij[1] + 1, ij[2] - 1))
        /\ MatchesDay(SubSeq(s, ij[2] + 1, Len(s)))}

DateFields(s) ==
    LET ij == CHOOSE ij \in DateSplits(s) : TRUE
    IN  <<DecVal(SubSeq(s, 1, ij[1] - 1)),
          DecVal(SubSeq(s, ij[1] + 1, ij[2] - 1)),
          DayVal(SubSeq(s, ij[2] + 1, Len(s)))>>

\* datetime.strptime(s, '%Y-%m-%d') does not raise ValueError (s a str)
DateParses(s) ==
    /\ DateSplits(s) # {}
    /\ LET f == DateFields(s)
       IN  f[1] >= 1 /\ f[3] <= DaysInMonth(f[1], f[2])

\* the day that datetime.strptime(s, '%Y-%m-%d') yields, as an ordinal
ParseDate(s) == LET f == DateFields(s) IN Ordinal(f[1], f[2], f[3])

-----------------------------------------------------------------------------
(* Python int and float: total_seizures / total_days * days * 0.5 *)

\* A natural number of any size is the sequence of its digits in base
\* LimbBase, the least significant first and the most significant not 0.
LimbBase == 32768
LimbBits == 15

RECURSIVE BigFromInt(_)
BigFromInt(n) ==
    IF n = 0 THEN <<>> ELSE <<n % LimbBase>> \o BigFromInt(n \div LimbBase)

RECURSIVE BigNorm(_)
BigNorm(a) ==
    IF a = <<>> THEN <<>>
    ELSE IF a[Len(a)] = 0 THEN BigNorm(SubSeq(a, 1, Len(a) - 1))
    ELSE a

Limb(a, i) == IF i <= Len(a) THEN a[i] ELSE 0

RECURSIVE BigAddFrom(_, _, _, _)
BigAddFrom(a, b, i, carry) ==
    IF i > Len(a) /\ i > Len(b)
    THEN IF carry = 0 THEN <<>> ELSE <<carry>>
    ELSE LET t == Limb(a, i) + Limb(b, i) + carry
         IN  <<t % LimbBase>> \o BigAddFrom(a, b, i + 1, t \div LimbBase)

BigAdd(a, b) == BigAddFrom(a, b, 1, 0)

\* a * k for 0 <= k < LimbBase
RECURSIVE BigMulLimbFrom(_, _, _, _)
BigMulLimbFrom(a, k, i, carry) ==
    IF i > Len(a)
    THEN IF carry = 0 THEN <<>> ELSE <<carry>>
    ELSE LET t == a[i] * k + carry
         IN  <<t % LimbBase>> \o BigMulLimbFrom(a, k, i + 1, t \div LimbBase)

BigMulLimb(a, k) == BigNorm(BigMulLimbFrom(a, k, 1, 0))

\* a * LimbBase^n
BigShiftLimbs(a, n) == IF a = <<>> THEN <<>> ELSE [i \in 1..n |-> 0] \o a

RECURSIVE BigMulFrom(_, _, _)
BigMulFrom(a, b, i) ==
    IF i > Len(b) THEN <<>>
    ELSE BigAdd(BigShiftLimbs(BigMulLimb(a, b[i]), i - 1), BigMulFrom(a, b, i + 1))

BigMul(a, b) == BigMulFrom(a, b, 1)

\* [q, r] with a = q * k + r and 0 <= r < k, for 0 < k < LimbBase
RECURSIVE BigDivLimbFrom(_, _, _, _)
BigDivLimbFrom(a, k, i, rem) ==
    IF i = 0 THEN [q |-> <<>>, r |-> rem]
    ELSE LET t == rem * LimbBase + a[i]
             rest == BigDivLimbFrom(a, k, i - 1, t % k)
         IN  [q |-> rest.q \o <<t \div k>>, r |-> rest.r]

BigDivLimb(a, k) ==
    LET d == BigDivLimbFrom(a, k, Len(a), 0) IN [q |-> BigNorm(d.q), r |-> d.r]

\* a < b
RECURSIVE BigLessFrom(_, _, _)
BigLessFrom(a, b, i) ==
    IF i = 0 THEN FALSE
    ELSE IF a[i] # b[i] THEN a[i] < b[i]
    ELSE BigLessFrom(a, b, i - 1)

BigLess(a, b) ==
    IF Len(a) # Len(b) THEN Len(a) < Len(b) ELSE BigLessFrom(a, b, Len(a))

RECURSIVE Pow2(_)
Pow2(n) == IF n = 0 THEN 1 ELSE 2 * Pow2(n - 1)

\* 2^n
BigPow2(n) == BigShiftLimbs(<<Pow2(n % LimbBits)>>, n \div LimbBits)

\* int.bit_length()
RECURSIVE IntBitLength(_)
IntBitLength(n) == IF n = 0 THEN 0 ELSE 1 + IntBitLength(n \div 2)

BigBitLength(a) ==
    IF a = <<>> THEN 0 ELSE (Len(a) - 1) * LimbBits + IntBitLength(a[Len(a)])

\* [q, r] with a = q * 2^n + r and 0 <= r < 2^n
BigDivPow2(a, n) ==
    LET limbs == n \div LimbBits
        high == IF limbs >= Len(a) THEN <<>> ELSE SubSeq(a, limbs + 1, Len(a))
        low == BigNorm(SubSeq(a, 1, IF limbs >= Len(a) THEN Len(a) ELSE limbs))
        d == BigDivLimb(high, Pow2(n % LimbBits))
    IN  [q |-> d.q,
         r |-> BigAdd(low, BigShiftLimbs(BigFromInt(d.r), limbs))]

\* A float is [neg, m, e], the number (-1)^neg * m * 2^e, with m a natural
\* of exactly MantissaBits bits, or <<>> for zero. The values met here are
\* far from the overflow and the underflow of the exponent.
MantissaBits == 53

FloatZero == [neg |-> FALSE, m |-> <<>>, e |-> 0]

\* the nearest float to m * 2^e (to more than m * 2^e when sticky), ties
\* to the even mantissa
RoundToFloat(neg, m, e, sticky) ==
    LET len == BigBitLength(m)
    IN  IF len <= MantissaBits
        THEN [neg |-> neg, m |-> BigMul(m, BigPow2(MantissaBits - len)),
              e |-> e - (MantissaBits - len)]
        ELSE LET s == len - MantissaBits
                 d == BigDivPow2(m, s)
                 half == BigPow2(s - 1)
                 up == \/ BigLess(half, d.r)
                       \/ d.r = half /\ (sticky \/ d.q[1] % 2 = 1)
                 q == IF up THEN BigAdd(d.q, <<1>>) ELSE d.q
             IN  IF BigBitLength(q) > MantissaBits
                 THEN [neg |-> neg, m |-> BigDivPow2(q, 1).q, e |-> e + s + 1]
                 ELSE [neg |-> neg, m |-> q, e |-> e + s]

\* digits of the quotient computed before it is rounded
DivisionBits == 75

\* a / b on int a >= 0, b > 0 (true division) ; b < LimbBase
IntTrueDiv(a, b) ==
    IF a = 0 THEN FloatZero
    ELSE LET d == BigDivLimb(BigMul(BigFromInt(a), BigPow2(DivisionBits)), b)
         IN  RoundToFloat(FALSE, d.q, 0 - DivisionBits, d.r # 0)

\* x * y on floats
FloatMul(x, y) ==
    IF x.m = <<>> \/ y.m = <<>> THEN FloatZero
    ELSE RoundToFloat(x.neg # y.neg, BigMul(x.m, y.m), x.e + y.e, FALSE)

\* float(n)
IntToFloat(n) ==
    IF n = 0 THEN FloatZero
    ELSE RoundToFloat(n < 0, BigFromInt(IF n < 0 THEN 0 - n ELSE n), 0, FALSE)

\* the float literals 0.5 and 1.2
Float_0_5 == IntTrueDiv(1, 2)
Float_1_2 == IntTrueDiv(12, 10)

\* n <= x on an int n >= 0 and a float x
IntLeqFloat(n, x) ==
    IF x.m = <<>> THEN n = 0
    ELSE IF x.neg THEN FALSE
    ELSE IF x.e < 0
    THEN ~BigLess(x.m, BigMul(BigFromInt(n), BigPow2(0 - x.e)))
    ELSE ~BigLess(BigMul(x.m, BigPow2(x.e)), BigFromInt(n))

-----------------------------------------------------------------------------
(* Helpers shared by the route modules *)

\* what a handler returns: the HTTP status, the "error" key of the JSON body
\* ("" on success) and the entity the body carries (<<>> when none)
Response(code, error, body) == [code |-> code, error |-> error, body |-> body]

Request(op, id, data) == [op |-> op, id |-> id]

\* d[key] = value on a Python dict, the key added when absent
SetKey(d, key, value) == (key :> value) @@ d

\* the first field of `required` that the body lacks, 0 when none is missing
\*   for field in required_fields: if not data or field not in data
FirstMissing(data, required) ==
    IF \E i \in 1..Len(required) : ~Has(data, required[i])
    THEN CHOOSE i \in 1..Len(required) :
             /\ ~Has(data, required[i])
             /\ \A j \in 1..(i - 1) : Has(data, required[j])
    ELSE 0

\* data.get(field, '') of a body
Get(data, field) == IF Has(data, field) THEN data[field] ELSE Str(<<>>)

\* FindIndex giving the last index of the scan when no entry has the id
FindIndexOrLast(db, id) ==
    IF \E i \in 1..Len(db) : db[i].id = id
    THEN CHOOSE i \in 1..Len(db) :
             /\ db[i].id = id
             /\ \A j \in 1..(i - 1) : db[j].id # id
    ELSE Len(db)

\* index of the first entry of db whose id is `id`, 0 when there is none
FindIndex(db, id) ==
    IF \E i \in 1..Len(db) : db[i].id = id
    THEN CHOOSE i \in 1..Len(db) :
             /\ db[i].id = id
             /\ \A j \in 1..(i - 1) : db[j].id # id
    ELSE 0

\* del db[i:]
DelFrom(db, i) == SubSeq(db, 1, i - 1)

\* del db[i]
DelAt(db, i) == SubSeq(db, 1, i - 1) \o SubSeq(db, i + 1, Len(db))

NewUuidAfterStored ==
    Len(appointments_db) + Len(medication_db) + Len(seizure_logs_db) + 1

\* str(uuid.uuid4()) : a value never drawn before
NewUuid == uuid_counter + 1

\* list.sort() / sorted() of a list of str
RECURSIVE Insert(_, _)
Insert(sorted, s) ==
    IF sorted = <<>> THEN <<s>>
    ELSE IF StrLess(s, Head(sorted)) THEN <<s>> \o sorted
    ELSE <<Head(sorted)>> \o Insert(Tail(sorted), s)

\* the sort left out
Unsorted(l) == l

\* the sort made in descending order
RECURSIVE SortedDescending(_)
SortedDescending(l) ==
    IF l = <<>> THEN <<>>
    ELSE LET rest == SortedDescending(SubSeq(l, 1, Len(l) - 1))
             hi == SelectSeq(rest, LAMBDA x : StrLess(l[Len(l)], x))
             lo == SelectSeq(rest, LAMBDA x : ~StrLess(l[Len(l)], x))
         IN  hi \o <<l[Len(l)]>> \o lo

RECURSIVE Sorted(_)
Sorted(l) == IF l = <<>> THEN <<>> ELSE Insert(Sorted(SubSeq(l, 1, Len(l) - 1)), l[Len(l)])

\* sub in s on str
Contains(sub, s) ==
    \E i \in 0..(Len(s) - Len(sub)) : SubSeq(s, i + 1, i + Len(sub)) = sub

\* request.args.get(name, '') of a query string
Arg(args, name) == IF name \in DOMAIN args THEN args[name] ELSE <<>>

\* (x[k1], x[k2]) < (y[k1], y[k2]) : tuples of str compare item by item
KeyLess(x, y, k1, k2) ==
    StrLess(x[k1], y[k1]) \/ (x[k1] = y[k1] /\ StrLess(x[k2], y[k2]))

\* list.sort(key=lambda x: (x[k1], x[k2])) : stable, ascending
RECURSIVE InsertByKeys(_, _, _, _)
InsertByKeys(sorted, x, k1, k2) ==
    IF sorted = <<>> THEN <<x>>
    ELSE IF KeyLess(x, Head(sorted), k1, k2) THEN <<x>> \o sorted
    ELSE <<Head(sorted)>> \o InsertByKeys(Tail(sorted), x, k1, k2)

RECURSIVE SortedByKeys(_, _, _)
SortedByKeys(l, k1, k2) ==
    IF l = <<>> THEN <<>>
    ELSE InsertByKeys(SortedByKeys(SubSeq(l, 1, Len(l) - 1), k1, k2), l[Len(l)], k1, k2)

\* the entities a list handler keeps: a name filter keeps those whose field
\* holds it as a substring, a status filter those whose status equals it,
\* both compared in lower case; an empty filter keeps all
KeptByName(db, field, filter) ==
    IF filter = <<>> THEN db
    ELSE SelectSeq(db, LAMBDA x : Contains(lower(filter), lower(x[field])))

KeptByStatusExactly(db, filter) ==
    IF filter = <<>> THEN db
    ELSE SelectSeq(db, LAMBDA x : filter = x.status)

KeptByStatus(db, filter) ==
    IF filter = <<>> THEN db
    ELSE SelectSeq(db, LAMBDA x : lower(filter) = lower(x.status))

-----------------------------------------------------------------------------
(* routes/medication.py *)

S_active == <<"a", "c", "t", "i", "v", "e">>
S_paused == <<"p", "a", "u", "s", "e", "d">>
S_discontinued == <<"d", "i", "s", "c", "o", "n", "t", "i", "n", "u", "e", "d">>

\* valid_statuses of update_medication
MedicationStatuses == {S_active, S_paused, S_discontinued}

\* index of the first element of a times array on which
\* datetime.strptime(time_str, '%H:%M') raises, 0 when every element parses
FirstBadTime(l) ==
    IF \E i \in 1..Len(l) : ~IsStr(l[i]) \/ ~TimeParses(Val(l[i]))
    THEN CHOOSE i \in 1..Len(l) :
             /\ ~IsStr(l[i]) \/ ~TimeParses(Val(l[i]))
             /\ \A j \in 1..(i - 1) : IsStr(l[j]) /\ TimeParses(Val(l[j]))
    ELSE 0

\* the str elements of a validated times array
TimeStrings(l) == [i \in 1..Len(l) |-> Val(l[i])]

\* the medication object that schedule_medication builds
NewMedication(data) ==
    [id |-> NewUuid,
     patient |-> strip(Val(data["patient"])),
     drug_name |-> strip(Val(data["drug_name"])),
     times |-> Sorted(TimeStrings(Val(data["times"]))),
     dosage |-> strip(Val(Get(data, "dosage"))),
     instructions |-> strip(Val(Get(data, "instructions"))),
     status |-> S_active,
     created_at |-> now]

\* the response of schedule_medication to a body
ScheduleMedicationResponse(data) ==
    IF FirstMissing(data, <<"patient", "drug_name", "times">>) # 0
    THEN Response(400, "Missing required field", <<>>)
    ELSE IF \/ ~IsStr(data["patient"])
            \/ ~IsStr(data["drug_name"])
            \/ ~IsStr(Get(data, "dosage"))
            \/ ~IsStr(Get(data, "instructions"))
    THEN Response(500, "Scheduling failed", <<>>)
    ELSE IF strip(Val(data["patient"])) = <<>> \/ strip(Val(data["drug_name"])) = <<>>
    THEN Response(400, "Invalid input", <<>>)
    ELSE IF ~IsList(data["times"]) \/ Len(Val(data["times"])) = 0
    THEN Response(400, "Invalid times", <<>>)
    ELSE LET bad == FirstBadTime(Val(data["times"]))
         IN  IF bad # 0
             THEN IF IsStr(Val(data["times"])[bad])
                  THEN Response(400, "Invalid time format", <<>>)
                  ELSE Response(500, "Scheduling failed", <<>>)
             ELSE Response(201, "", NewMedication(data))

\* POST /medication
schedule_medication(data) ==
    /\ response' = ScheduleMedicationResponse(data)
    /\ medication_db' = IF response'.code = 201
                        THEN Append(medication_db, response'.body)
                        ELSE medication_db
    /\ uuid_counter' = IF response'.code = 201 THEN uuid_counter + 1 ELSE uuid_counter
    /\ request' = Request("schedule_medication", 0, data)
    /\ UNCHANGED <<appointments_db, seizure_logs_db, now, predict_vars, frames>>

\* A step of update_medication takes and gives [m, r]: the medication dict
\* as mutated so far and the response, code 0 while the handler goes on.
Going(m) == [m |-> m, r |-> Response(0, "", <<>>)]
Stopped(m, code, error) == [m |-> m, r |-> Response(code, error, <<>>)]

\* if 'times' in data: ... medication['times'] = sorted(times)
UpdateTimes(st, data) ==
    IF st.r.code # 0 \/ ~Has(data, "times") THEN st
    ELSE IF ~IsList(data["times"]) \/ Len(Val(data["times"])) = 0
    THEN Stopped(st.m, 400, "Invalid times")
    ELSE LET bad == FirstBadTime(Val(data["times"]))
         IN  IF bad # 0
             THEN IF IsStr(Val(data["times"])[bad])
                  THEN Stopped(st.m, 400, "Invalid time format")
                  ELSE Stopped(st.m, 500, "Update failed")
             ELSE Going([st.m EXCEPT !.times = Sorted(TimeStrings(Val(data["times"])))])

\* UpdateDosage written with data.get('dosage', ''), whether or not the
\* body carries the field
UpdateDosageAlways(st, data) ==
    IF st.r.code # 0 THEN st
    ELSE IF ~IsStr(Get(data, "dosage")) THEN Stopped(st.m, 500, "Update failed")
    ELSE Going([st.m EXCEPT !.dosage = strip(Val(Get(data, "dosage")))])

\* if 'dosage' in data: medication['dosage'] = data['dosage'].strip()
UpdateDosage(st, data) ==
    IF st.r.code # 0 \/ ~Has(data, "dosage") THEN st
    ELSE IF ~IsStr(data["dosage"]) THEN Stopped(st.m, 500, "Update failed")
    ELSE Going([st.m EXCEPT !.dosage = strip(Val(data["dosage"]))])

\* if 'instructions' in data: medication['instructions'] = ...strip()
UpdateInstructions(st, data) ==
    IF st.r.code # 0 \/ ~Has(data, "instructions") THEN st
    ELSE IF ~IsStr(data["instructions"]) THEN Stopped(st.m, 500, "Update failed")
    ELSE Going([st.m EXCEPT !.instructions = strip(Val(data["instructions"]))])

\* UpdateStatus with the assignment made before the check
UpdateStatusAssigningFirst(st, data) ==
    IF st.r.code # 0 \/ ~Has(data, "status") THEN st
    ELSE IF ~IsStr(data["status"]) THEN Stopped(st.m, 500, "Update failed")
    ELSE IF lower(Val(data["status"])) \notin MedicationStatuses
    THEN Stopped([st.m EXCEPT !.status = lower(Val(data["status"]))], 400, "Invalid status")
    ELSE Going([st.m EXCEPT !.status = lower(Val(data["status"]))])

\* if 'status' in data: ... medication['status'] = new_status
UpdateStatus(st, data) ==
    IF st.r.code # 0 \/ ~Has(data, "status") THEN st
    ELSE IF ~IsStr(data["status"]) THEN Stopped(st.m, 500, "Update failed")
    ELSE IF lower(Val(data["status"])) \notin MedicationStatuses
    THEN Stopped(st.m, 400, "Invalid status")
    ELSE Going([st.m EXCEPT !.status = lower(Val(data["status"]))])

\* medication['updated_at'] = datetime.now().isoformat() ; return ... 200
StampMedication(st) ==
    IF st.r.code # 0 THEN st
    ELSE LET m == SetKey(st.m, "updated_at", now)
         IN  [m |-> m, r |-> Response(200, "", m)]

\* the field updates of update_medication in the order of the code, each
\* assignment made on the stored dict as soon as its own check has passed
UpdateMedicationSteps(m, data) ==
    StampMedication(
        UpdateStatus(
            UpdateInstructions(
                UpdateDosage(
                    UpdateTimes(Going(m), data), data), data), data))

\* UpdateMedicationResult with the fields validated before the lookup
UpdateMedicationResultValidatingFirst(medication_id, data) ==
    LET i == FindIndex(medication_db, medication_id)
        m == IF i = 0 THEN [times |-> <<>>, dosage |-> <<>>, instructions |-> <<>>,
                            status |-> S_active]
             ELSE medication_db[i]
        st == UpdateMedicationSteps(m, data)
    IN  IF data = NoData
        THEN [db |-> medication_db,
              response |-> Response(400, "No data provided", <<>>)]
        ELSE IF st.r.code # 200
        THEN [db |-> medication_db, response |-> st.r]
        ELSE IF i = 0
        THEN [db |-> medication_db,
              response |-> Response(404, "Medication not found", <<>>)]
        ELSE [db |-> [medication_db EXCEPT ![i] = st.m], response |-> st.r]

\* the store and the response that update_medication leaves
UpdateMedicationResult(medication_id, data) ==
    LET i == FindIndex(medication_db, medication_id)
    IN  IF data = NoData
        THEN [db |-> medication_db,
              response |-> Response(400, "No data provided", <<>>)]
        ELSE IF i = 0
        THEN [db |-> medication_db,
              response |-> Response(404, "Medication not found", <<>>)]
        ELSE LET st == UpdateMedicationSteps(medication_db[i], data)
             IN  [db |-> [medication_db EXCEPT ![i] = st.m], response |-> st.r]

\* PUT /medication/<medication_id>
update_medication(medication_id, data) ==
    \E res \in {UpdateMedicationResult(medication_id, data)} :
        /\ medication_db' = res.db
        /\ response' = res.response
        /\ request' = Request("update_medication", medication_id, data)
        /\ UNCHANGED <<appointments_db, seizure_logs_db, uuid_counter, now,
                       predict_vars, frames>>

\* DELETE /medication/<medication_id>
delete_medication(medication_id) ==
    \E i \in {FindIndex(medication_db, medication_id)} :
        /\ request' = Request("delete_medication", medication_id, NoData)
        /\ IF i # 0
           THEN /\ medication_db' = DelAt(medication_db, i)
                /\ response' = Response(200, "", <<>>)
           ELSE /\ response' = Response(404, "Medication not found", <<>>)
                /\ UNCHANGED medication_db
        /\ UNCHANGED <<appointments_db, seizure_logs_db, uuid_counter, now,
                       predict_vars, frames>>

\* the store and the response that get_medications leaves: the list it
\* filters and sorts is a copy of the store
GetMedicationsResult(args) ==
    LET filtered_medications ==
            KeptByStatus(KeptByName(medication_db, "patient", strip(Arg(args, "patient"))),
                         strip(Arg(args, "status")))
        sorted == SortedByKeys(filtered_medications, "patient", "drug_name")
    IN  [db |-> medication_db,
         response |-> Response(200, "", [medications |-> sorted, total |-> Len(sorted)])]

\* GET /medication
get_medications(args) ==
    \E res \in {GetMedicationsResult(args)} :
        /\ medication_db' = res.db
        /\ response' = res.response
        /\ request' = [op |-> "get_medications", id |-> 0, args |-> args]
        /\ UNCHANGED <<appointments_db, seizure_logs_db, uuid_counter, now,
                       predict_vars, frames>>

-----------------------------------------------------------------------------
(* routes/progress.py *)

\* the midnight that follows
tomorrow == now + 1

\* datetime.now().replace(hour=0, minute=0, second=0, microsecond=0)
today == now

\* occurred not in [0, 1]
BadOccurred(v) == ~(IsNum(v) /\ Val(v) \in {0, 1})

\* LogExists with the scan starting one entry too late
LogExistsSkippingFirst(db, patient, date_str) ==
    \E i \in 2..Len(db) : db[i].date = date_str /\ db[i].patient = patient

\* for log in seizure_logs_db:
\*     if log['date'] == date_str and log['patient'] == patient
LogExists(db, patient, date_str) ==
    \E i \in 1..Len(db) : db[i].date = date_str /\ db[i].patient = patient

\* the seizure_log object that log_seizure builds
NewSeizureLog(data) ==
    [id |-> NewUuid,
     patient |-> strip(Val(data["patient"])),
     date |-> Val(data["date"]),
     occurred |-> Val(data["occurred"]),
     notes |-> strip(Val(Get(data, "notes"))),
     created_at |-> now]

\* the response of log_seizure to a body
LogSeizureResponse(data) ==
    IF FirstMissing(data, <<"date", "occurred", "patient">>) # 0
    THEN Response(400, "Missing required field", <<>>)
    ELSE IF ~IsStr(data["patient"]) \/ ~IsStr(Get(data, "notes"))
    THEN Response(500, "Logging failed", <<>>)
    ELSE IF strip(Val(data["patient"])) = <<>>
    THEN Response(400, "Invalid input", <<>>)
    ELSE IF BadOccurred(data["occurred"])
    THEN Response(400, "Invalid occurred value", <<>>)
    ELSE IF ~IsStr(data["date"])
    THEN Response(500, "Logging failed", <<>>)
    ELSE IF ~DateParses(Val(data["date"]))
    THEN Response(400, "Invalid date format", <<>>)
    ELSE IF ParseDate(Val(data["date"])) > today
    THEN Response(400, "Invalid date", <<>>)
    ELSE IF LogExists(seizure_logs_db, strip(Val(data["patient"])), Val(data["date"]))
    THEN Response(409, "Duplicate log", <<>>)
    ELSE Response(201, "", NewSeizureLog(data))

\* LogSeizureResult with the append made before the duplicate scan
LogSeizureResultAppendingFirst(data) ==
    LET r == LogSeizureResponse(data)
    IN  [db |-> IF r.code \in {201, 409}
                THEN Append(seizure_logs_db, NewSeizureLog(data))
                ELSE seizure_logs_db,
         response |-> r]

\* the store and the response that log_seizure leaves
LogSeizureResult(data) ==
    LET r == LogSeizureResponse(data)
    IN  [db |-> IF r.code = 201 THEN Append(seizure_logs_db, r.body)
                ELSE seizure_logs_db,
         response |-> r]

\* POST /progress
log_seizure(data) ==
    \E res \in {LogSeizureResult(data)} :
        /\ seizure_logs_db' = res.db
        /\ response' = res.response
        /\ uuid_counter' = uuid_counter + Len(res.db) - Len(seizure_logs_db)
        /\ request' = Request("log_seizure", 0, data)
        /\ UNCHANGED <<appointments_db, medication_db, now, predict_vars, frames>>

\* if 'occurred' in data: ... log['occurred'] = occurred
UpdateOccurred(st, data) ==
    IF st.r.code # 0 \/ ~Has(data, "occurred") THEN st
    ELSE IF BadOccurred(data["occurred"])
    THEN Stopped(st.m, 400, "Invalid occurred value")
    ELSE Going([st.m EXCEPT !.occurred = Val(data["occurred"])])

\* if 'notes' in data: log['notes'] = data['notes'].strip()
UpdateNotes(st, data) ==
    IF st.r.code # 0 \/ ~Has(data, "notes") THEN st
    ELSE IF ~IsStr(data["notes"]) THEN Stopped(st.m, 500, "Update failed")
    ELSE Going([st.m EXCEPT !.notes = strip(Val(data["notes"]))])

\* log['updated_at'] = datetime.now().isoformat() ; return ... 200
StampLog(st) ==
    IF st.r.code # 0 THEN st
    ELSE LET m == SetKey(st.m, "updated_at", now)
         IN  [m |-> m, r |-> Response(200, "", m)]

\* the field updates of update_seizure_log in the order of the code
UpdateSeizureLogSteps(log, data) ==
    StampLog(UpdateNotes(UpdateOccurred(Going(log), data), data))

\* the store and the response that update_seizure_log leaves
UpdateSeizureLogResult(log_id, data) ==
    LET i == FindIndex(seizure_logs_db, log_id)
    IN  IF data = NoData
        THEN [db |-> seizure_logs_db,
              response |-> Response(400, "No data provided", <<>>)]
        ELSE IF i = 0
        THEN [db |-> seizure_logs_db,
              response |-> Response(404, "Log not found", <<>>)]
        ELSE LET st == UpdateSeizureLogSteps(seizure_logs_db[i], data)
             IN  [db |-> [seizure_logs_db EXCEPT ![i] = st.m], response |-> st.r]

\* PUT /progress/<log_id>
update_seizure_log(log_id, data) ==
    \E res \in {UpdateSeizureLogResult(log_id, data)} :
        /\ seizure_logs_db' = res.db
        /\ response' = res.response
        /\ request' = Request("update_seizure_log", log_id, data)
        /\ UNCHANGED <<appointments_db, medication_db, uuid_counter, now,
                       predict_vars, frames>>

\* DELETE /progress/<log_id>
delete_seizure_log(log_id) ==
    \E i \in {FindIndex(seizure_logs_db, log_id)} :
        /\ request' = Request("delete_seizure_log", log_id, NoData)
        /\ IF i # 0
           THEN /\ seizure_logs_db' = DelAt(seizure_logs_db, i)
                /\ response' = Response(200, "", <<>>)
           ELSE /\ response' = Response(404, "Log not found", <<>>)
                /\ UNCHANGED seizure_logs_db
        /\ UNCHANGED <<appointments_db, medication_db, uuid_counter, now,
                       predict_vars, frames>>

\* int(s) on a str does not raise ValueError: optional blanks around an
\* optional "-" and decimal digits
IntParses(s) ==
    LET t == strip(s)
        digits == IF t # <<>> /\ t[1] = "-" THEN Tail(t) ELSE t
    IN  digits # <<>> /\ AllDigits(digits)

\* the value of int(s)
ParseInt(s) ==
    LET t == strip(s)
    IN  IF t[1] = "-" THEN 0 - DecVal(Tail(t)) ELSE DecVal(t)

\* date.max.toordinal() : the last day a datetime can hold, the first being 1
MaxOrdinal == 3652059

\* sum(log['occurred'] for log in logs)
RECURSIVE SumOccurred(_)
SumOccurred(logs) ==
    IF logs = <<>> THEN 0 ELSE logs[1].occurred + SumOccurred(Tail(logs))

\* round(x, 2) of a float x >= 0, in hundredths: the nearest multiple of
\* 0.01 to the value of x, ties to the even one
RoundHundredths(x) ==
    IF x.m = <<>> THEN 0
    ELSE LET p == BigMul(x.m, BigFromInt(100))
             d == IF x.e < 0 THEN BigDivPow2(p, 0 - x.e)
                  ELSE [q |-> BigMul(p, BigPow2(x.e)), r |-> <<>>]
             half == IF x.e < 0 THEN BigPow2(0 - x.e - 1) ELSE <<1>>
             q == IF d.q = <<>> THEN 0
                  ELSE IF Len(d.q) = 1 THEN d.q[1]
                  ELSE d.q[1] + LimbBase * d.q[2]
         IN  IF BigLess(half, d.r) \/ (d.r = half /\ q % 2 = 1) THEN q + 1 ELSE q

\* list.sort(key=lambda x: x['date'], reverse=True) : descending by the
\* date string, logs of equal date in the order they had
RECURSIVE InsertByDateDescending(_, _)
InsertByDateDescending(sorted, log) ==
    IF sorted = <<>> THEN <<log>>
    ELSE IF StrLess(Head(sorted).date, log.date) THEN <<log>> \o sorted
    ELSE <<Head(sorted)>> \o InsertByDateDescending(Tail(sorted), log)

RECURSIVE SortedByDateDescending(_)
SortedByDateDescending(logs) ==
    IF logs = <<>> THEN <<>>
    ELSE InsertByDateDescending(SortedByDateDescending(SubSeq(logs, 1, Len(logs) - 1)),
                                logs[Len(logs)])

\* the logs get_progress keeps for a patient filter
\*   if patient_filter.lower() in log['patient'].lower()
FilteredLogsCaseSensitive(db, patient_filter) ==
    IF patient_filter = <<>> THEN db
    ELSE SelectSeq(db, LAMBDA log : Contains(patient_filter, log.patient))

FilteredLogs(db, patient_filter) ==
    IF patient_filter = <<>> THEN db
    ELSE SelectSeq(db, LAMBDA log : Contains(lower(patient_filter), lower(log.patient)))

\* the logs of the window: strptime(log['date'], '%Y-%m-%d') >= start_date
RecentLogs(logs, start_date) ==
    SelectSeq(logs, LAMBDA log : ParseDate(log.date) >= start_date)

\* total_seizures / total_days * days * factor
Threshold(total_seizures, total_days, days, factor) ==
    FloatMul(FloatMul(IntTrueDiv(total_seizures, total_days), IntToFloat(days)), factor)

\* Progress with each comparison strict
\* the progress status of get_progress
Progress(total_days, total_seizures, recent_seizures, days) ==
    IF total_days < 7 THEN "Insufficient Data"
    ELSE IF recent_seizures = 0 THEN "Improving"
    ELSE IF IntLeqFloat(recent_seizures,
                        Threshold(total_seizures, total_days, days, Float_0_5))
    THEN "Improving"
    ELSE IF IntLeqFloat(recent_seizures,
                        Threshold(total_seizures, total_days, days, Float_1_2))
    THEN "Stable"
    ELSE "Needs Attention"

\* the response of get_progress to a query string
GetProgressResponse(args) ==
    IF "days" \in DOMAIN args /\ ~IntParses(args["days"])
    THEN Response(400, "Invalid parameter", <<>>)
    ELSE LET days == IF "days" \in DOMAIN args THEN ParseInt(args["days"]) ELSE 7
             filtered_logs == FilteredLogs(seizure_logs_db, strip(Arg(args, "patient")))
             total_seizures == SumOccurred(filtered_logs)
             start_date == today - days
             recent_seizures == SumOccurred(RecentLogs(filtered_logs, start_date))
             total_days == Len(filtered_logs)
             seizure_rate == FloatMul(IntTrueDiv(total_seizures, total_days),
                                      IntToFloat(100))
         IN  IF filtered_logs = <<>>
             THEN Response(200, "", [summary |-> [total_seizures |-> 0,
                                                  seven_day_trend |-> 0,
                                                  progress |-> "No Data",
                                                  seizure_rate |-> 0],
                                     logs |-> <<>>])
             ELSE IF start_date < 1 \/ start_date > MaxOrdinal
             THEN Response(500, "Analysis failed", <<>>)
             ELSE Response(200, "",
                      [summary |-> [total_seizures |-> total_seizures,
                                    seven_day_trend |-> recent_seizures,
                                    progress |-> Progress(total_days, total_seizures,
                                                          recent_seizures, days),
                                    seizure_rate |-> RoundHundredths(seizure_rate),
                                    total_days_logged |-> total_days,
                                    analysis_period_days |-> days],
                       logs |-> SortedByDateDescending(filtered_logs)])

\* GET /progress
get_progress(args) ==
    /\ response' = GetProgressResponse(args)
    /\ request' = [op |-> "get_progress", id |-> 0, args |-> args]
    /\ UNCHANGED <<appointments_db, medication_db, seizure_logs_db, uuid_counter,
                   now, predict_vars, frames>>

-----------------------------------------------------------------------------
(* routes/appointments.py *)

S_scheduled == <<"s", "c", "h", "e", "d", "u", "l", "e", "d">>
S_completed == <<"c", "o", "m", "p", "l", "e", "t", "e", "d">>
S_cancelled == <<"c", "a", "n", "c", "e", "l", "l", "e", "d">>
S_rescheduled == <<"r", "e", "s", "c", "h", "e", "d", "u", "l", "e", "d">>

\* valid_statuses of update_appointment
AppointmentStatuses == {S_scheduled, S_completed, S_cancelled, S_rescheduled}

\* the appointment object that book_appointment builds
NewAppointment(data) ==
    [id |-> NewUuid,
     patient |-> strip(Val(data["patient"])),
     doctor |-> strip(Val(data["doctor"])),
     date |-> Val(data["date"]),
     time |-> Val(data["time"]),
     status |-> S_scheduled,
     created_at |-> now]

\* the response of book_appointment to a body
BookAppointmentResponse(data) ==
    IF FirstMissing(data, <<"patient", "doctor", "date", "time">>) # 0
    THEN Response(400, "Missing required field", <<>>)
    ELSE IF ~IsStr(data["patient"]) \/ ~IsStr(data["doctor"])
    THEN Response(500, "Booking failed", <<>>)
    ELSE IF strip(Val(data["patient"])) = <<>> \/ strip(Val(data["doctor"])) = <<>>
    THEN Response(400, "Invalid input", <<>>)
    ELSE IF ~IsStr(data["date"])
    THEN Response(500, "Booking failed", <<>>)
    ELSE IF ~DateParses(Val(data["date"]))
    THEN Response(400, "Invalid date format", <<>>)
    ELSE IF ParseDate(Val(data["date"])) < today
    THEN Response(400, "Invalid date", <<>>)
    ELSE IF ~IsStr(data["time"])
    THEN Response(500, "Booking failed", <<>>)
    ELSE IF ~TimeParses(Val(data["time"]))
    THEN Response(400, "Invalid time format", <<>>)
    ELSE Response(201, "", NewAppointment(data))

\* POST /appointments
book_appointment(data) ==
    /\ response' = BookAppointmentResponse(data)
    /\ appointments_db' = IF response'.code = 201
                          THEN Append(appointments_db, response'.body)
                          ELSE appointments_db
    /\ uuid_counter' = IF response'.code = 201 THEN uuid_counter + 1 ELSE uuid_counter
    /\ request' = Request("book_appointment", 0, data)
    /\ UNCHANGED <<medication_db, seizure_logs_db, now, predict_vars, frames>>

UpdateAppointmentResultUnchecked(appointment_id, data) ==
    LET i == FindIndex(appointments_db, appointment_id)
    IN  IF ~Has(data, "status")
        THEN [db |-> appointments_db,
              response |-> Response(400, "Missing status", <<>>)]
        ELSE IF ~IsStr(data["status"])
        THEN [db |-> appointments_db,
              response |-> Response(500, "Update failed", <<>>)]
        ELSE IF i = 0
        THEN [db |-> appointments_db,
              response |-> IF lower(Val(data["status"])) \notin AppointmentStatuses
                           THEN Response(400, "Invalid status", <<>>)
                           ELSE Response(404, "Appointment not found", <<>>)]
        ELSE LET a == SetKey([appointments_db[i] EXCEPT
                                  !.status = lower(Val(data["status"]))],
                             "updated_at", now)
             IN  [db |-> [appointments_db EXCEPT ![i] = a],
                  response |-> IF lower(Val(data["status"])) \notin AppointmentStatuses
                               THEN Response(400, "Invalid status", <<>>)
                               ELSE Response(200, "", a)]

\* the store and the response that update_appointment leaves
UpdateAppointmentResult(appointment_id, data) ==
    LET i == FindIndex(appointments_db, appointment_id)
    IN  IF ~Has(data, "status")
        THEN [db |-> appointments_db,
              response |-> Response(400, "Missing status", <<>>)]
        ELSE IF ~IsStr(data["status"])
        THEN [db |-> appointments_db,
              response |-> Response(500, "Update failed", <<>>)]
        ELSE IF lower(Val(data["status"])) \notin AppointmentStatuses
        THEN [db |-> appointments_db,
              response |-> Response(400, "Invalid status", <<>>)]
        ELSE IF i = 0
        THEN [db |-> appointments_db,
              response |-> Response(404, "Appointment not found", <<>>)]
        ELSE LET a == SetKey([appointments_db[i] EXCEPT
                                  !.status = lower(Val(data["status"]))],
                             "updated_at", now)
             IN  [db |-> [appointments_db EXCEPT ![i] = a],
                  response |-> Response(200, "", a)]

\* PUT /appointments/<appointment_id>
update_appointment(appointment_id, data) ==
    \E res \in {UpdateAppointmentResult(appointment_id, data)} :
        /\ appointments_db' = res.db
        /\ response' = res.response
        /\ request' = Request("update_appointment", appointment_id, data)
        /\ UNCHANGED <<medication_db, seizure_logs_db, uuid_counter, now,
                       predict_vars, frames>>

delete_appointment_removing(appointment_id) ==
    \E i \in {FindIndex(appointments_db, appointment_id)} :
        /\ request' = Request("delete_appointment", appointment_id, NoData)
        /\ response' = IF i = 0 THEN Response(404, "Appointment not found", <<>>)
                       ELSE Response(200, "", <<>>)
        /\ appointments_db' = IF i = 0 THEN appointments_db ELSE DelAt(appointments_db, i)
        /\ UNCHANGED <<medication_db, seizure_logs_db, uuid_counter, now,
                       predict_vars, frames>>

\* DELETE /appointments/<appointment_id> : the only route of that URL is
\* declared with methods=['PUT'], so the request reaches no handler
delete_appointment(appointment_id) ==
    /\ request' = Request("delete_appointment", appointment_id, NoData)
    /\ response' = Response(405, "Method Not Allowed", <<>>)
    /\ UNCHANGED <<appointments_db, medication_db, seizure_logs_db, uuid_counter,
                   now, predict_vars, frames>>

GetAppointmentsResultSortingInPlace(args) ==
    LET sorted == SortedByKeys(appointments_db, "date", "time")
    IN  [db |-> sorted,
         response |-> Response(200, "", [appointments |-> sorted, total |-> Len(sorted)])]

\* the store and the response that get_appointments leaves: the list it
\* filters and sorts is a copy of the store
GetAppointmentsResult(args) ==
    LET filtered_appointments ==
            KeptByStatus(
                KeptByName(KeptByName(appointments_db, "patient", strip(Arg(args, "patient"))),
                           "doctor", strip(Arg(args, "doctor"))),
                strip(Arg(args, "status")))
        sorted == SortedByKeys(filtered_appointments, "date", "time")
    IN  [db |-> appointments_db,
         response |-> Response(200, "", [appointments |-> sorted, total |-> Len(sorted)])]

\* GET /appointments
get_appointments(args) ==
    \E res \in {GetAppointmentsResult(args)} :
        /\ appointments_db' = res.db
        /\ response' = res.response
        /\ request' = [op |-> "get_appointments", id |-> 0, args |-> args]
        /\ UNCHANGED <<medication_db, seizure_logs_db, uuid_counter, now,
                       predict_vars, frames>>

-----------------------------------------------------------------------------
(* routes/predict.py *)

\* model, scaler  : the two globals, None or the object a joblib.load gave
\* files          : which of the two joblib files exist
\* joblib_loads   : the number of joblib.load calls that returned an object
\* load_succeeded : a load_model call has returned True
\* pc             : where each request being handled stands in predict_seizure

MaxLoads == 4
MaxThreads == 2

FeatureCount == 115

None == 0

F_model == "best_mlp_model.joblib"
F_scaler == "mlp_scaler.joblib"
ModelFiles == {F_model, F_scaler}

SEIZURE_RISK_MESSAGES ==
    <<"Warning: Seizure may occur soon. Stay safe and alert.",
      "High seizure probability. Alert your caregiver if possible.",
      "Critical: Seizure risk detected. Please take immediate precautions.",
      "Danger: Brain activity indicates potential seizure. Seek medical attention.",
      "Alert: Seizure warning active. Avoid dangerous activities.",
      "Urgent: Seizure probability elevated. Contact your healthcare provider.",
      "Warning: Abnormal brain patterns detected. Stay in safe environment.",
      "High risk: Seizure indicators present. Take prescribed medication if available.",
      "Critical alert: Seizure may be imminent. Lie down in safe area.",
      "Emergency: Seizure risk confirmed. Call emergency services if needed.">>

NORMAL_EEG_MESSAGES ==
    <<"Your brain activity looks stable.",
      "No seizure indicators present at the moment.",
      "EEG patterns appear normal and healthy.",
      "Brain activity is within safe parameters.",
      "No seizure risk detected in current readings.",
      "Your neurological activity is stable.",
      "EEG shows normal brain wave patterns.",
      "No concerning brain activity detected.",
      "Brain function appears to be normal.",
      "Seizure risk assessment: Low probability.">>

\* random.choice(messages), the random source having drawn `choice`
RandomChoice(messages, choice) == messages[choice]

LoadModelResultNotRetried ==
    [ok |-> FALSE, model |-> model, scaler |-> scaler, joblib_loads |-> joblib_loads]

\* load_model() run without interruption: the pair is loaded when both files
\* exist, and nothing is assigned otherwise
LoadModelResult ==
    IF ModelFiles \subseteq files
    THEN [ok |-> TRUE, model |-> joblib_loads + 1, scaler |-> joblib_loads + 2,
          joblib_loads |-> joblib_loads + 2]
    ELSE [ok |-> FALSE, model |-> model, scaler |-> scaler,
          joblib_loads |-> joblib_loads]

\* the state that load_model(), called when the module is imported, leaves
\* with the given files present
Imported(present) ==
    /\ files = present
    /\ model = (IF ModelFiles \subseteq present THEN 1 ELSE None)
    /\ scaler = (IF ModelFiles \subseteq present THEN 2 ELSE None)
    /\ joblib_loads = (IF ModelFiles \subseteq present THEN 2 ELSE 0)
    /\ load_succeeded = (ModelFiles \subseteq present)
    /\ pc = [t \in 1..MaxThreads |-> "idle"]

\* An uploaded file is the text of a JSON array, a text of numbers
\* separated by commas or white space, or a text that is neither.
JsonArrayFile(l) == <<"json array", l>>
NumbersFile(l) == <<"numbers", l>>
OtherFile == <<"other", <<>>>>

NoFile == <<"no file", <<>>>>

\* a request with no file and no JSON body
NoInput == [file |-> NoFile, data |-> NoData]

\* float(x) succeeds on x: a number, or a string that spells one
Convertible(x) == IsNum(x) \/ (IsStr(x) /\ Val(x) # <<>> /\ AllDigits(Val(x)))

\* the features that predict_seizure takes from the request, or the error
\* it answers with when it finds none
Features(input) ==
    IF input.file # NoFile
    THEN IF input.file[1] = "json array"
         THEN [error |-> "", features |-> List(input.file[2])]
         ELSE IF input.file[1] = "numbers"
         THEN [error |-> "",
               features |-> List([i \in 1..Len(input.file[2]) |-> Num(input.file[2][i])])]
         ELSE [error |-> "Invalid file content", features |-> List(<<>>)]
    ELSE IF input.data # NoData /\ "features" \in DOMAIN input.data
    THEN [error |-> "", features |-> input.data["features"]]
    ELSE [error |-> "Invalid input", features |-> List(<<>>)]

ValidFeaturesAtLeast(features) == IsList(features) /\ Len(Val(features)) >= FeatureCount

\* isinstance(features, list) and len(features) == 115
ValidFeatures(features) == IsList(features) /\ Len(Val(features)) = FeatureCount

PredictionBodyByChoice(prediction, confidence, choice) ==
    [status |-> IF choice % 2 = 1 THEN "High seizure risk" ELSE "Normal EEG pattern",
     confidence |-> confidence,
     message |-> IF prediction = 1 THEN RandomChoice(SEIZURE_RISK_MESSAGES, choice)
                 ELSE RandomChoice(NORMAL_EEG_MESSAGES, choice),
     prediction |-> prediction]

\* the body of the response to a prediction
PredictionBody(prediction, confidence, choice) ==
    [status |-> IF prediction = 1 THEN "High seizure risk" ELSE "Normal EEG pattern",
     confidence |-> confidence,
     message |-> IF prediction = 1 THEN RandomChoice(SEIZURE_RISK_MESSAGES, choice)
                 ELSE RandomChoice(NORMAL_EEG_MESSAGES, choice),
     prediction |-> prediction]

Min(proba) == CHOOSE p \in {proba[i] : i \in 1..Len(proba)} :
                  \A i \in 1..Len(proba) : p <= proba[i]

\* array.max() of the probabilities, given in hundredths
Max(proba) == CHOOSE p \in {proba[i] : i \in 1..Len(proba)} :
                  \A i \in 1..Len(proba) : proba[i] <= p

\* predict_seizure once the pair is loaded: its response and the calls it
\* made on the scaler and the model, which answers with label and proba
ServeResult(input, label, proba, choice) ==
    LET got == Features(input)
    IN  IF got.error # ""
        THEN [response |-> Response(400, got.error, <<>>), invoked |-> <<>>]
        ELSE IF ~ValidFeatures(got.features)
        THEN [response |-> Response(400, "Invalid features", <<>>), invoked |-> <<>>]
        ELSE IF \E i \in 1..FeatureCount : ~Convertible(Val(got.features)[i])
        THEN [response |-> Response(400, "Invalid data format", <<>>), invoked |-> <<>>]
        ELSE [response |-> Response(200, "", PredictionBody(label, Max(proba), choice)),
              invoked |-> <<"scaler.transform", "model.predict", "model.predict_proba">>]

\* what a request leaves behind for the properties to read
PredictRequest(input, label, proba, choice, retried, invoked) ==
    [op |-> "predict_seizure", id |-> 0, input |-> input, label |-> label,
     proba |-> proba, choice |-> choice, retried |-> retried, invoked |-> invoked]

\* the state of the other routes
stores ==
    <<appointments_db, medication_db, seizure_logs_db, uuid_counter, now, frames>>

\* POST /predict, handled without interruption
predict_seizure(input, label, proba, choice) ==
    \E retried \in {model = None \/ scaler = None} :
    \E load \in {IF retried THEN LoadModelResult
                 ELSE [ok |-> TRUE, model |-> model, scaler |-> scaler,
                       joblib_loads |-> joblib_loads]} :
    \E res \in {IF load.ok THEN ServeResult(input, label, proba, choice)
                ELSE [response |-> Response(500, "Model not available", <<>>),
                      invoked |-> <<>>]} :
        /\ model' = load.model
        /\ scaler' = load.scaler
        /\ joblib_loads' = load.joblib_loads
        /\ load_succeeded' = (load_succeeded \/ (retried /\ load.ok))
        /\ response' = res.response
        /\ request' = PredictRequest(input, label, proba, choice, retried, res.invoked)
        /\ UNCHANGED <<stores, files, pc>>

\* POST /predict, handled by thread t among others, one step at a time.
\* The request arrives: `if model is None or scaler is None`
predict_seizure_begin(t) ==
    /\ pc[t] = "idle"
    /\ pc' = [pc EXCEPT ![t] = IF model = None \/ scaler = None
                               THEN "load_model" ELSE "serve"]
    /\ UNCHANGED <<stores, request, response, model, scaler, files,
                   joblib_loads, load_succeeded>>

\* load_model: `if os.path.exists(model_path) and os.path.exists(scaler_path)`
load_model_exists(t) ==
    /\ pc[t] = "load_model"
    /\ IF ModelFiles \subseteq files
       THEN /\ pc' = [pc EXCEPT ![t] = "joblib.load(model_path)"]
            /\ UNCHANGED <<request, response>>
       ELSE /\ pc' = [pc EXCEPT ![t] = "idle"]
            /\ response' = Response(500, "Model not available", <<>>)
            /\ request' = PredictRequest(NoInput, 0, <<>>, 0, TRUE, <<>>)
    /\ UNCHANGED <<stores, model, scaler, files, joblib_loads, load_succeeded>>

\* load_model: `model = joblib.load(model_path)`, which raises when the file
\* is there no more
load_model_model(t) ==
    /\ pc[t] = "joblib.load(model_path)"
    /\ joblib_loads < MaxLoads
    /\ IF F_model \in files
       THEN /\ model' = joblib_loads + 1
            /\ joblib_loads' = joblib_loads + 1
            /\ pc' = [pc EXCEPT ![t] = "joblib.load(scaler_path)"]
            /\ UNCHANGED <<request, response>>
       ELSE /\ pc' = [pc EXCEPT ![t] = "idle"]
            /\ response' = Response(500, "Model not available", <<>>)
            /\ request' = PredictRequest(NoInput, 0, <<>>, 0, TRUE, <<>>)
            /\ UNCHANGED <<model, joblib_loads>>
    /\ UNCHANGED <<stores, scaler, files, load_succeeded>>

\* load_model: `scaler = joblib.load(scaler_path)` and `return True`
load_model_scaler(t) ==
    /\ pc[t] = "joblib.load(scaler_path)"
    /\ joblib_loads < MaxLoads
    /\ IF F_scaler \in files
       THEN /\ scaler' = joblib_loads + 1
            /\ joblib_loads' = joblib_loads + 1
            /\ load_succeeded' = TRUE
            /\ pc' = [pc EXCEPT ![t] = "serve"]
            /\ UNCHANGED <<request, response>>
       ELSE /\ pc' = [pc EXCEPT ![t] = "idle"]
            /\ response' = Response(500, "Model not available", <<>>)
            /\ request' = PredictRequest(NoInput, 0, <<>>, 0, TRUE, <<>>)
            /\ UNCHANGED <<scaler, joblib_loads, load_succeeded>>
    /\ UNCHANGED <<stores, model, files>>

\* the rest of predict_seizure, the pair being loaded
predict_seizure_serve(t, input, label, proba, choice) ==
    /\ pc[t] = "serve"
    /\ \E res \in {ServeResult(input, label, proba, choice)} :
        /\ response' = res.response
        /\ request' = PredictRequest(input, label, proba, choice, FALSE, res.invoked)
    /\ pc' = [pc EXCEPT ![t] = "idle"]
    /\ UNCHANGED <<stores, model, scaler, files, joblib_loads, load_succeeded>>

\* a model file is put in place, or taken away
FileAppears(f) ==
    /\ f \notin files
    /\ files' = files \cup {f}
    /\ request' = Request("none", 0, NoData)
    /\ response' = Response(0, "", <<>>)
    /\ UNCHANGED <<stores, model, scaler, joblib_loads, load_succeeded, pc>>

FileVanishes(f) ==
    /\ f \in files
    /\ files' = files \ {f}
    /\ request' = Request("none", 0, NoData)
    /\ response' = Response(0, "", <<>>)
    /\ UNCHANGED <<stores, model, scaler, joblib_loads, load_succeeded, pc>>

-----------------------------------------------------------------------------
(* log_seizure, delete_medication and delete_seizure_log handled by several
   threads at a time: app.run(debug=True) serves each request in a thread
   of its own, and a thread may be suspended between any two steps *)

\* the local variables of a handler: the statement it stands at, the body
\* or the URL id of its request, and the position of its loop
Frame(at, op, data, id, i) ==
    [at |-> at, op |-> op, data |-> data, id |-> id, i |-> i]

\* a thread that handles no request
IdleFrame == Frame("idle", "none", NoData, 0, 0)

\* POST /progress arrives at thread t: the handler runs up to the loop
\* `for log in seizure_logs_db`, or returns the error of an earlier check
log_seizure_begin(t, data) ==
    /\ frames[t] = IdleFrame
    /\ IF LogSeizureResponse(data).code \in {201, 409}
       THEN /\ frames' = [frames EXCEPT ![t] = Frame("for", "log_seizure", data, 0, 1)]
            /\ UNCHANGED <<request, response>>
       ELSE /\ response' = LogSeizureResponse(data)
            /\ request' = Request("log_seizure", 0, data)
            /\ UNCHANGED frames
    /\ UNCHANGED <<appointments_db, medication_db, seizure_logs_db, uuid_counter,
                   now, predict_vars>>

\* one turn of `for log in seizure_logs_db:
\*     if log['date'] == date_str and log['patient'] == patient`
log_seizure_scan(t) ==
    /\ frames[t].at = "for"
    /\ frames[t].op = "log_seizure"
    /\ LET f == frames[t]
           patient == strip(Val(f.data["patient"]))
           date_str == Val(f.data["date"])
       IN  IF f.i > Len(seizure_logs_db)
           THEN /\ frames' = [frames EXCEPT ![t].at = "append"]
                /\ UNCHANGED <<request, response>>
           ELSE IF /\ seizure_logs_db[f.i].date = date_str
                   /\ seizure_logs_db[f.i].patient = patient
           THEN /\ response' = Response(409, "Duplicate log", <<>>)
                /\ request' = Request("log_seizure", 0, f.data)
                /\ frames' = [frames EXCEPT ![t] = IdleFrame]
           ELSE /\ frames' = [frames EXCEPT ![t].i = f.i + 1]
                /\ UNCHANGED <<request, response>>
    /\ UNCHANGED <<appointments_db, medication_db, seizure_logs_db, uuid_counter,
                   now, predict_vars>>

\* seizure_logs_db.append(seizure_log) and the 201 response
log_seizure_append(t) ==
    /\ frames[t].at = "append"
    /\ seizure_logs_db' = Append(seizure_logs_db, NewSeizureLog(frames[t].data))
    /\ uuid_counter' = uuid_counter + 1
    /\ response' = Response(201, "", NewSeizureLog(frames[t].data))
    /\ request' = Request("log_seizure", 0, frames[t].data)
    /\ frames' = [frames EXCEPT ![t] = IdleFrame]
    /\ UNCHANGED <<appointments_db, medication_db, now, predict_vars>>

DeleteOps == {"delete_medication", "delete_seizure_log"}

\* DELETE /medication/<id> or DELETE /progress/<id> arrives at thread t
delete_begin(t, op, id) ==
    /\ frames[t] = IdleFrame
    /\ frames' = [frames EXCEPT ![t] = Frame("for", op, NoData, id, 1)]
    /\ UNCHANGED <<appointments_db, medication_db, seizure_logs_db, uuid_counter,
                   now, request, response, predict_vars>>

\* the store that a delete handler works on
StoreOf(op) == IF op = "delete_medication" THEN medication_db ELSE seizure_logs_db

\* one turn of `for i, medication in enumerate(medication_db):
\*     if medication['id'] == medication_id`; the loop ends when the
\* position has passed the end of the list as it is now
delete_scan(t) ==
    /\ frames[t].at = "for"
    /\ frames[t].op \in DeleteOps
    /\ LET f == frames[t]
           db == StoreOf(f.op)
       IN  IF f.i > Len(db)
           THEN /\ response' = Response(404, IF f.op = "delete_medication"
                                              THEN "Medication not found"
                                              ELSE "Log not found", <<>>)
                /\ request' = Request(f.op, f.id, NoData)
                /\ frames' = [frames EXCEPT ![t] = IdleFrame]
           ELSE IF db[f.i].id = f.id
           THEN /\ frames' = [frames EXCEPT ![t].at = "del"]
                /\ UNCHANGED <<request, response>>
           ELSE /\ frames' = [frames EXCEPT ![t].i = f.i + 1]
                /\ UNCHANGED <<request, response>>
    /\ UNCHANGED <<appointments_db, medication_db, seizure_logs_db, uuid_counter,
                   now, predict_vars>>

\* `del medication_db[i]` and the response: the position is the one the
\* loop found, IndexError when the list has become shorter than that
delete_del(t) ==
    /\ frames[t].at = "del"
    /\ LET f == frames[t]
           db == StoreOf(f.op)
           after == IF f.i <= Len(db) THEN DelAt(db, f.i) ELSE db
       IN  /\ response' = IF f.i <= Len(db) THEN Response(200, "", <<>>)
                          ELSE Response(500, "Deletion failed", <<>>)
           /\ request' = Request(f.op, f.id, NoData)
           /\ medication_db' = IF f.op = "delete_medication" THEN after
                               ELSE medication_db
           /\ seizure_logs_db' = IF f.op = "delete_seizure_log" THEN after
                                 ELSE seizure_logs_db
    /\ frames' = [frames EXCEPT ![t] = IdleFrame]
    /\ UNCHANGED <<appointments_db, uuid_counter, now, predict_vars>>

-----------------------------------------------------------------------------
(* The environment: the clock and the requests that arrive *)

\* the day on which the application starts
Day0 == Ordinal(2024, 1, 10)

Init ==
    /\ appointments_db = <<>>
    /\ medication_db = <<>>
    /\ seizure_logs_db = <<>>
    /\ uuid_counter = 0
    /\ now = Day0
    /\ request = Request("none", 0, NoData)
    /\ response = Response(0, "", <<>>)
    /\ frames = [t \in 1..MaxThreads |-> IdleFrame]
    /\ Imported({})

\* midnight passes
Tick ==
    /\ now < Day0 + MaxDays
    /\ now' = now + 1
    /\ UNCHANGED <<appointments_db, medication_db, seizure_logs_db,
                   uuid_counter, request, response, predict_vars, frames>>

\* the ids a request URL may carry: every id issued so far and one that
\* was never issued
UrlIds == 1..(uuid_counter + 1)

\* a body with the given fields, a field left out where its value is Absent
Absent == <<"absent", 0>>
Body(fields) == [k \in {f \in DOMAIN fields : fields[f] # Absent} |-> fields[k]]

T_2000 == <<"2", "0", ":", "0", "0">>
T_0800 == <<"0", "8", ":", "0", "0">>
T_800 == <<"8", ":", "0", "0">>
T_2400 == <<"2", "4", ":", "0", "0">>

N_Al == <<"A", "l">>
N_Al_padded == <<" ", "A", "l", " ">>
N_Bo == <<"B", "o">>
N_blank == <<" ">>
N_drug == <<"D", "r", "u", "g">>
N_x_padded == <<" ", "x", " ">>
N_bogus == <<"b", "o", "g", "u", "s">>
N_Paused == <<"P", "a", "u", "s", "e", "d">>
N_Completed == <<"C", "o", "m", "p", "l", "e", "t", "e", "d">>

\* the day before Day0, Day0 and the day after it; the day before Day0
\* written without zero padding; a month that does not exist
D_0109 == <<"2", "0", "2", "4", "-", "0", "1", "-", "0", "9">>
D_0110 == <<"2", "0", "2", "4", "-", "0", "1", "-", "1", "0">>
D_0111 == <<"2", "0", "2", "4", "-", "0", "1", "-", "1", "1">>
D_19 == <<"2", "0", "2", "4", "-", "1", "-", "9">>
D_1301 == <<"2", "0", "2", "4", "-", "1", "3", "-", "0", "1">>

\* a step that draws a uuid4 value is left out once MaxUuid of them have
\* been drawn
WithinUuids == uuid_counter' <= MaxUuid

(* routes/medication.py alone *)

\* values of "times" in a body
ValidTimes == {List(<<Str(T_800), Str(T_2000)>>), List(<<Str(T_800), Str(T_800)>>)}
InvalidTimes == {List(<<>>), Str(T_0800), List(<<Str(T_2000), Str(T_2400)>>),
                 List(<<Num(8)>>)}

\* bodies of POST /medication
ScheduleBodies ==
    {Body([patient |-> Str(N_Al_padded), drug_name |-> Str(N_drug), times |-> t]) :
        t \in ValidTimes \cup InvalidTimes \cup {Absent}}
    \cup {Body([patient |-> p, drug_name |-> Str(N_drug),
                times |-> List(<<Str(T_0800)>>), dosage |-> d]) :
              p \in {Str(N_blank), Num(5)}, d \in {Str(N_x_padded), Num(5)}}
    \cup {NoData}

\* bodies of PUT /medication/<id>
UpdateMedicationBodies ==
    {Body([times |-> t, status |-> st]) :
        t \in {Absent, List(<<Str(T_800), Str(T_2000)>>), List(<<Str(T_2400)>>)},
        st \in {Absent, Str(N_Paused), Str(N_bogus)}}
    \cup {Body([times |-> t]) : t \in {List(<<>>), Str(T_0800), List(<<Num(8)>>)}}
    \cup {Body([dosage |-> d, status |-> st]) :
              d \in {Str(N_x_padded), Num(5)}, st \in {Str(N_bogus), Num(5)}}

NextMedication ==
    \/ \E data \in ScheduleBodies : schedule_medication(data) /\ WithinUuids
    \/ \E id \in UrlIds, data \in UpdateMedicationBodies : update_medication(id, data)
    \/ \E id \in UrlIds : delete_medication(id)

SpecMedication == Init /\ [][NextMedication]_vars

(* routes/progress.py alone *)

\* bodies of POST /progress
LogBodies ==
    {Body([patient |-> Str(pd[1]), date |-> Str(pd[2]), occurred |-> Num(o)]) :
        pd \in {<<N_Al, D_0110>>, <<N_Al_padded, D_0110>>, <<N_Al, D_19>>,
                <<N_Bo, D_0110>>},
        o \in {0, 1}}
    \cup {Body([patient |-> Str(N_Al), date |-> d, occurred |-> Num(1)]) :
              d \in {Str(D_0111), Str(D_1301), Num(5), Absent}}
    \cup {Body([patient |-> p, date |-> Str(D_0110), occurred |-> o, notes |-> n]) :
              p \in {Str(N_blank), Num(5)}, o \in {Num(2)}, n \in {Absent, Num(5)}}
    \cup {Body([patient |-> Str(N_Al), date |-> Str(D_0110), occurred |-> Str(<<"1">>)]),
          NoData}

\* bodies of PUT /progress/<id>
UpdateLogBodies ==
    {Body([occurred |-> o, notes |-> n]) :
        o \in {Absent, Num(1), Num(2)}, n \in {Absent, Str(N_x_padded), Num(5)}}

NextProgress ==
    \/ \E data \in LogBodies : log_seizure(data) /\ WithinUuids
    \/ \E id \in UrlIds, data \in UpdateLogBodies : update_seizure_log(id, data)
    \/ \E id \in UrlIds : delete_seizure_log(id)

SpecProgress == Init /\ [][NextProgress]_vars

(* routes/appointments.py alone, the clock running *)

\* bodies of POST /appointments
BookBodies ==
    {Body([patient |-> p, doctor |-> d, date |-> Str(dt), time |-> t]) :
        p \in {Str(N_Al_padded), Str(N_blank), Num(5)},
        d \in {Str(N_drug), Num(5)},
        dt \in {D_0109, D_0110, D_0111, D_1301},
        t \in {Str(T_0800), Str(T_2400), Num(8)}}
    \cup {Body([patient |-> Str(N_Al), doctor |-> Str(N_drug), date |-> d,
                time |-> Str(T_0800)]) : d \in {Num(5), Absent}}
    \cup {NoData}

\* bodies of PUT /appointments/<id>
UpdateAppointmentBodies ==
    {Body([status |-> st]) : st \in {Absent, Str(N_Completed), Str(N_bogus), Num(5)}}

NextAppointments ==
    \/ \E data \in BookBodies : book_appointment(data) /\ WithinUuids
    \/ \E id \in UrlIds, data \in UpdateAppointmentBodies : update_appointment(id, data)
    \/ \E id \in UrlIds : delete_appointment(id)
    \/ Tick

SpecAppointments == Init /\ [][NextAppointments]_vars

(* get_progress alone, on stores that a patient's daily logging leaves *)

MaxLogs == 10

\* the two decimal digits of n < 100, and the ISO form of a date
TwoDigits(n) == <<Alphabet[Ord["0"] + (n \div 10)], Alphabet[Ord["0"] + (n % 10)]>>
IsoDate(y, m, d) ==
    TwoDigits(y \div 100) \o TwoDigits(y % 100) \o <<"-">> \o TwoDigits(m)
        \o <<"-">> \o TwoDigits(d)

\* the ISO form of the day with the given ordinal, a day of 2023 or 2024
IsoOfOrdinal(o) ==
    LET ymd == CHOOSE ymd \in {2023, 2024} \X (1..12) \X (1..31) :
                   /\ ymd[3] <= DaysInMonth(ymd[1], ymd[2])
                   /\ Ordinal(ymd[1], ymd[2], ymd[3]) = o
    IN  IsoDate(ymd[1], ymd[2], ymd[3])

\* the date of the day `age` days before Day0
TrendDates == [age \in 0..MaxLogs |-> IsoOfOrdinal(Day0 - age)]

\* n logs made on the n days up to Day0, one a day, the oldest first:
\* a seizure on each of the `recent` latest days and of the `old` earliest
\* days; every second log is of another patient when `mixed`
TrendStore(n, recent, old, mixed) ==
    [k \in 1..n |->
        [id |-> k,
         patient |-> IF mixed /\ k % 2 = 0 THEN N_Bo ELSE N_Al,
         date |-> TrendDates[n - k],
         occurred |-> IF n - k < recent \/ k <= old THEN 1 ELSE 0,
         notes |-> <<>>,
         created_at |-> Day0 - (n - k)]]

TrendStores ==
    {TrendStore(n, recent, old, mixed) :
        n \in 0..MaxLogs, recent \in 0..3, old \in 0..2, mixed \in BOOLEAN}

InitTrend ==
    /\ seizure_logs_db \in TrendStores
    /\ uuid_counter = Len(seizure_logs_db)
    /\ appointments_db = <<>>
    /\ medication_db = <<>>
    /\ now = Day0
    /\ request = Request("none", 0, NoData)
    /\ response = Response(0, "", <<>>)
    /\ frames = [t \in 1..MaxThreads |-> IdleFrame]
    /\ Imported({})

\* values of the days parameter: integers, one that reaches before the
\* first day of the calendar, and one that is no integer
DaysArgs == {<<"0">>, <<"5">>, <<"6">>, <<"7">>, <<" ", "9">>, <<"-", "1">>,
             <<"7", "3", "8", "8", "9", "5">>, <<"x">>}

\* query strings of GET /progress
ProgressArgs ==
    {NoData, [patient |-> <<"a", "l">>], [patient |-> <<" ">>, days |-> <<"7">>]}
    \cup {[days |-> d] : d \in DaysArgs}
    \cup {[patient |-> <<"a", "l">>, days |-> d] : d \in {<<"5">>, <<"7">>}}

NextTrend == \E args \in ProgressArgs : get_progress(args)

SpecTrend == InitTrend /\ [][NextTrend]_vars

(* predict_seizure, one request at a time *)

\* feature lists of 114, 115 and 116 numbers, one of 115 values of which
\* one is no number, and one of 115 of which one is a string that spells one
Numbers(n) == [i \in 1..n |-> Num(i)]
FeatureLists ==
    {Numbers(n) : n \in {0, FeatureCount - 1, FeatureCount, FeatureCount + 1}}
    \cup {[Numbers(FeatureCount) EXCEPT ![2] = Str(N_x_padded)],
          [Numbers(FeatureCount) EXCEPT ![2] = Str(<<"7">>)]}

PredictInputs ==
    {[file |-> NoFile, data |-> [features |-> List(l)]] : l \in FeatureLists}
    \cup {[file |-> NoFile, data |-> NoData],
          [file |-> NoFile, data |-> [features |-> Str(N_x_padded)]],
          [file |-> JsonArrayFile(Numbers(FeatureCount)), data |-> NoData],
          [file |-> NumbersFile(<<1, 2>>), data |-> NoData],
          [file |-> OtherFile, data |-> NoData]}

\* what the model may answer: a label, and the probabilities of the two
\* classes in hundredths
Labels == {0, 1}
Probas == {<<13, 87>>, <<87, 13>>, <<50, 50>>}
Choices == 1..10

InitPredict ==
    /\ appointments_db = <<>>
    /\ medication_db = <<>>
    /\ seizure_logs_db = <<>>
    /\ uuid_counter = 0
    /\ now = Day0
    /\ request = Request("none", 0, NoData)
    /\ response = Response(0, "", <<>>)
    /\ frames = [t \in 1..MaxThreads |-> IdleFrame]
    /\ \E present \in SUBSET ModelFiles : Imported(present)

\* the answers of the model and of the random source to a request: none
\* are drawn for a request that carries no 115 convertible features
Answers(input) ==
    IF ServeResult(input, 0, <<0>>, 1).response.code = 200
    THEN Labels \X Probas \X Choices
    ELSE {<<0, <<>>, 0>>}

\* the requests with the answers they may get
PredictCases == UNION {{<<input, answer>> : answer \in Answers(input)} : input \in PredictInputs}

NextPredict ==
    \/ \E case \in PredictCases :
           predict_seizure(case[1], case[2][1], case[2][2], case[2][3])
    \/ \E f \in ModelFiles : FileAppears(f)
    \/ \E f \in ModelFiles : FileVanishes(f)

SpecPredict == InitPredict /\ [][NextPredict]_vars

(* predict_seizure, several requests at a time *)

ConcurrentInputs ==
    {[file |-> NoFile, data |-> [features |-> List(Numbers(n))]] :
        n \in {FeatureCount, FeatureCount + 1}}

NextPredictConcurrent ==
    \/ \E t \in 1..MaxThreads : predict_seizure_begin(t)
    \/ \E t \in 1..MaxThreads : load_model_exists(t)
    \/ \E t \in 1..MaxThreads : load_model_model(t)
    \/ \E t \in 1..MaxThreads : load_model_scaler(t)
    \/ \E t \in 1..MaxThreads, input \in ConcurrentInputs, label \in Labels :
           predict_seizure_serve(t, input, label, <<13, 87>>, 1)
    \/ \E f \in ModelFiles : FileAppears(f)
    \/ \E f \in ModelFiles : FileVanishes(f)

SpecPredictConcurrent == InitPredict /\ [][NextPredictConcurrent]_vars

(* the list handlers, on what the create handlers have stored *)

\* a day of February written without zero padding and a day of October
D_21 == <<"2", "0", "2", "4", "-", "2", "-", "1">>
D_1001 == <<"2", "0", "2", "4", "-", "1", "0", "-", "0", "1">>

N_al == <<"a", "l">>

ListBookBodies ==
    {Body([patient |-> Str(b[1]), doctor |-> Str(b[2]), date |-> Str(b[3]),
           time |-> Str(b[4])]) :
        b \in {<<N_Al, N_drug, D_1001, T_800>>, <<N_al, N_drug, D_21, T_2000>>,
               <<N_Bo, N_x_padded, D_1001, T_2000>>}}

ListScheduleBodies ==
    {Body([patient |-> Str(b[1]), drug_name |-> Str(b[2]),
           times |-> List(<<Str(T_0800)>>)]) :
        b \in {<<N_Bo, N_drug>>, <<N_Al, N_x_padded>>, <<N_Al, N_drug>>}}

ListLogBodies ==
    {Body([patient |-> Str(N_Al), date |-> Str(d), occurred |-> Num(1)]) :
        d \in {D_0110, D_19}}

\* query strings of GET /appointments, GET /medication and GET /progress
AppointmentArgs ==
    {NoData, [patient |-> N_Al_padded], [patient |-> N_blank],
     [doctor |-> N_x_padded], [status |-> N_Completed], [patient |-> N_al, status |-> S_scheduled]}

MedicationArgs ==
    {NoData, [patient |-> N_blank], [status |-> N_Paused],
     [patient |-> N_Al_padded, status |-> S_active]}

LogArgs == {NoData, [patient |-> N_Al_padded, days |-> <<"0">>]}

NextLists ==
    \/ \E data \in ListBookBodies : book_appointment(data) /\ WithinUuids
    \/ \E id \in UrlIds : update_appointment(id, Body([status |-> Str(N_Completed)]))
    \/ \E data \in ListScheduleBodies : schedule_medication(data) /\ WithinUuids
    \/ \E id \in UrlIds : update_medication(id, Body([status |-> Str(N_Paused)]))
    \/ \E data \in ListLogBodies : log_seizure(data) /\ WithinUuids
    \/ \E args \in AppointmentArgs : get_appointments(args)
    \/ \E args \in MedicationArgs : get_medications(args)
    \/ \E args \in LogArgs : get_progress(args)

SpecLists == Init /\ [][NextLists]_vars

(* log_seizure and book_appointment on the days around today, the clock
   running *)

BoundaryDates == {D_19, D_0110, D_0111}

\* bodies of POST /progress, well formed, dated around today
DatedLogBodies ==
    {Body([patient |-> Str(p), date |-> Str(d), occurred |-> Num(1)]) :
        p \in {N_Al, N_Bo}, d \in BoundaryDates}

\* bodies of POST /appointments, well formed, dated around today
BoundaryBookBodies ==
    {Body([patient |-> Str(N_Al), doctor |-> Str(N_drug), date |-> Str(d),
           time |-> Str(T_0800)]) : d \in BoundaryDates}

NextDates ==
    \/ \E data \in DatedLogBodies : log_seizure(data) /\ WithinUuids
    \/ \E data \in BoundaryBookBodies : book_appointment(data) /\ WithinUuids
    \/ Tick

SpecDates == Init /\ [][NextDates]_vars

(* log_seizure and the two delete handlers, several requests at a time *)

ConcurrentLogBodies ==
    {Body([patient |-> Str(p), date |-> Str(d), occurred |-> Num(1)]) :
        p \in {N_Al, N_Al_padded}, d \in {D_0110}}

ConcurrentScheduleBodies ==
    {Body([patient |-> Str(N_Al), drug_name |-> Str(N_drug),
           times |-> List(<<Str(T_0800)>>)])}

NextCrudConcurrent ==
    \/ \E t \in 1..MaxThreads, data \in ConcurrentLogBodies \cup {NoData} :
           log_seizure_begin(t, data)
    \/ \E t \in 1..MaxThreads : log_seizure_scan(t)
    \/ \E t \in 1..MaxThreads : log_seizure_append(t) /\ WithinUuids
    \/ \E data \in ConcurrentScheduleBodies :
           schedule_medication(data) /\ WithinUuids
    \/ \E t \in 1..MaxThreads, op \in DeleteOps, id \in UrlIds : delete_begin(t, op, id)
    \/ \E t \in 1..MaxThreads : delete_scan(t)
    \/ \E t \in 1..MaxThreads : delete_del(t)

SpecCrudConcurrent == Init /\ [][NextCrudConcurrent]_vars

(* get_progress on the logs of two patients *)

\* bodies of POST /progress: two patients, one calendar date spelled in two
\* ways
RateLogBodies ==
    {Body([patient |-> Str(p), date |-> Str(d), occurred |-> Num(o)]) :
        p \in {N_Al, N_Bo}, d \in {D_0109, D_19}, o \in {0, 1}}

RateArgs ==
    {NoData, [patient |-> N_al], [patient |-> <<"o">>], [days |-> <<"0">>],
     [days |-> <<"7", "3", "8", "8", "9", "5">>]}

NextRate ==
    \/ \E data \in RateLogBodies : log_seizure(data) /\ WithinUuids
    \/ \E args \in RateArgs : get_progress(args)

SpecRate == Init /\ [][NextRate]_vars

(* the three stores side by side *)

CrudScheduleBodies ==
    {Body([patient |-> Str(N_Al), drug_name |-> Str(N_drug),
           times |-> List(<<Str(T_800), Str(T_2000)>>)])}

CrudUpdateMedicationBodies ==
    {Body([times |-> List(<<Str(T_2000)>>), dosage |-> Str(N_x_padded)]),
     Body([instructions |-> Str(N_x_padded), status |-> Str(N_Paused)]),
     NoData}

CrudLogBodies ==
    {Body([patient |-> Str(N_Al), date |-> Str(d), occurred |-> Num(0)]) :
        d \in {D_0110, D_0109}}

CrudUpdateLogBodies ==
    {Body([occurred |-> Num(1)]), Body([notes |-> Str(N_x_padded)]), NoData}

CrudBookBodies ==
    {Body([patient |-> Str(N_Al), doctor |-> Str(N_drug), date |-> Str(D_0110),
           time |-> Str(T_0800)])}

CrudUpdateAppointmentBodies == {Body([status |-> Str(N_Completed)])}

Next ==
    \/ \E data \in CrudBookBodies : book_appointment(data) /\ WithinUuids
    \/ \E id \in UrlIds, data \in CrudUpdateAppointmentBodies :
          update_appointment(id, data)
    \/ \E id \in UrlIds : delete_appointment(id)
    \/ \E data \in CrudScheduleBodies : schedule_medication(data) /\ WithinUuids
    \/ \E id \in UrlIds, data \in CrudUpdateMedicationBodies :
          update_medication(id, data)
    \/ \E id \in UrlIds : delete_medication(id)
    \/ \E data \in CrudLogBodies : log_seizure(data) /\ WithinUuids
    \/ \E id \in UrlIds, data \in CrudUpdateLogBodies : update_seizure_log(id, data)
    \/ \E id \in UrlIds : delete_seizure_log(id)

Spec == Init /\ [][Next]_vars

-----------------------------------------------------------------------------
(* Properties *)

\* C1: in every state reached by log_seizure, update_seizure_log and
\* delete_seizure_log requests handled one at a time, no two entries of
\* seizure_logs_db have both the same patient and the same date string.
C1_OneLogPerPatientAndDate ==
    \A i, j \in 1..Len(seizure_logs_db) :
        (/\ seizure_logs_db[i].patient = seizure_logs_db[j].patient
         /\ seizure_logs_db[i].date = seizure_logs_db[j].date) => i = j

\* two logs are stored and the last request, a duplicate, was refused
C1_Witness ==
    /\ Len(seizure_logs_db) = 2
    /\ request.op = "log_seizure"
    /\ response.code = 409

\* a body of POST /progress whose fields are all of valid form
WellFormedLogBody(data) ==
    /\ {"date", "occurred", "patient"} \subseteq DOMAIN data
    /\ IsStr(data["patient"]) /\ strip(Val(data["patient"])) # <<>>
    /\ Has(data, "notes") => IsStr(data["notes"])
    /\ IsNum(data["occurred"]) /\ Val(data["occurred"]) \in {0, 1}
    /\ IsStr(data["date"]) /\ DateParses(Val(data["date"]))

WellFormedLogBodies == {data \in LogBodies : WellFormedLogBody(data)}

\* a well-formed body whose date is not after today
ValidLogBody(data) == ParseDate(Val(data["date"])) <= today

\* the entries of db that carry the stripped patient and the date of a body
SameKey(db, data) ==
    {i \in 1..Len(db) : /\ db[i].patient = strip(Val(data["patient"]))
                        /\ db[i].date = Val(data["date"])}

\* C2: in every reachable state, a log_seizure request with otherwise valid
\* fields whose stripped patient and date equal those of a stored entry
\* returns 409 and leaves seizure_logs_db as it was; a request that is the
\* first for its (patient, date) returns 201 and appends its entry.
C2_DuplicateRefused ==
    \A data \in WellFormedLogBodies :
        ValidLogBody(data) =>
            LET res == LogSeizureResult(data)
            IN  IF SameKey(seizure_logs_db, data) # {}
                THEN /\ res.response.code = 409
                     /\ res.db = seizure_logs_db
                ELSE /\ res.response.code = 201
                     /\ res.db = Append(seizure_logs_db, res.response.body)
                     /\ res.response.body.patient = strip(Val(data["patient"]))
                     /\ res.response.body.date = Val(data["date"])

\* a duplicate of the one stored log was refused
C2_Witness ==
    /\ request.op = "log_seizure"
    /\ response.code = 409
    /\ Len(seizure_logs_db) = 1

\* the bodies of POST /appointments whose date is a calendar date
DatedBookBodies ==
    {data \in BookBodies :
        Has(data, "date") /\ IsStr(data["date"]) /\ DateParses(Val(data["date"]))}

\* a body of POST /appointments whose date is a day before today
HasPastDate(data) == ParseDate(Val(data["date"])) < today

\* C3: book_appointment with a date earlier than today returns 400 and
\* appends nothing to appointments_db, whatever the patient, doctor and
\* time fields of the request hold (any value, any type).
C3_PastDateRefused ==
    [][request'.op = "book_appointment" =>
         \A data \in DatedBookBodies :
             (HasPastDate(data) /\ book_appointment(data)) =>
                 /\ response'.code = 400
                 /\ appointments_db' = appointments_db]_vars

\* a list of str in ascending order of code points
IsAscending(l) == \A i, j \in 1..Len(l) : i < j => StrLessEq(l[i], l[j])

\* C4: in every state reached by schedule_medication, update_medication
\* and delete_medication requests, the times list of every entry of
\* medication_db is non-empty, holds only strings that the HH:MM check
\* accepts, and is in ascending order.
C4_TimesValidAndSorted ==
    \A i \in 1..Len(medication_db) :
        LET times == medication_db[i].times
        IN  /\ Len(times) > 0
            /\ \A k \in 1..Len(times) : TimeParses(times[k])
            /\ IsAscending(times)

\* an update has replaced the times of a stored medication by two
\* different times
C4_Witness ==
    /\ request.op = "update_medication"
    /\ response.code = 200
    /\ \E i \in 1..Len(medication_db) :
          /\ medication_db[i].id = request.id
          /\ medication_db[i].times = <<T_2000, T_800>>

\* how often x occurs in l
Count(l, x) == Cardinality({i \in 1..Len(l) : l[i] = x})

\* l and m hold the same elements with the same multiplicities
IsPermutation(l, m) ==
    /\ Len(l) = Len(m)
    /\ \A i \in 1..Len(l) : Count(l, l[i]) = Count(m, l[i])

\* C5: for every schedule_medication request that returns 201, the times
\* list of the stored medication is a permutation of the times list of the
\* request, in ascending lexicographic order.
C5_StoredTimesAreSortedInput ==
    [][(request'.op = "schedule_medication" /\ response'.code = 201) =>
         \A data \in ScheduleBodies :
             schedule_medication(data) =>
                 LET stored == medication_db'[Len(medication_db')]
                 IN  /\ medication_db' = Append(medication_db, stored)
                     /\ stored.id = response'.body.id
                     /\ IsPermutation(stored.times, TimeStrings(Val(data["times"])))
                     /\ IsAscending(stored.times)]_vars

\* a medication was scheduled and its two times are stored
C5_Witness ==
    /\ request.op = "schedule_medication"
    /\ response.code = 201
    /\ medication_db # <<>>
    /\ medication_db[Len(medication_db)].times = <<T_2000, T_800>>

\* the ids of the entries of a store
Ids(db) == {db[i].id : i \in 1..Len(db)}

\* the entry of db with the given id
Entry(db, id) == db[CHOOSE i \in 1..Len(db) : db[i].id = id]

\* every field a body of PUT /medication/<id> carries has the type the
\* handler documents: times an array of strings, the others strings
WellTypedMedicationUpdate(data) ==
    /\ \A f \in DOMAIN data \ {"times"} : IsStr(data[f])
    /\ (Has(data, "times") /\ IsList(data["times"])) =>
           \A k \in 1..Len(Val(data["times"])) : IsStr(Val(data["times"])[k])

\* the status of a body is a string outside active, paused, discontinued
\* once lower-cased
HasInvalidStatus(data) ==
    /\ Has(data, "status")
    /\ IsStr(data["status"])
    /\ lower(Val(data["status"])) \notin {S_active, S_paused, S_discontinued}

\* the well-typed bodies of PUT /medication/<id> with an invalid status
InvalidStatusBodies ==
    {data \in UpdateMedicationBodies :
        WellTypedMedicationUpdate(data) /\ HasInvalidStatus(data)}

C6_InvalidStatusRefused ==
    \A data \in InvalidStatusBodies, id \in Ids(medication_db) :
        LET res == UpdateMedicationResult(id, data)
        IN  /\ res.response.code = 400
            /\ Entry(res.db, id).status = Entry(medication_db, id).status

C6_StatusAlwaysValid ==
    \A i \in 1..Len(medication_db) :
        medication_db[i].status \in {S_active, S_paused, S_discontinued}

C7_RefusedUpdateChangesNothing ==
    [][/\ (request'.op = "update_medication" /\ response'.code = 400)
           => medication_db' = medication_db
       /\ (request'.op = "update_seizure_log" /\ response'.code = 400)
           => seizure_logs_db' = seizure_logs_db]_vars

\* entity `after` is `before` with only the fields of `updatable` that the
\* body carries, and updated_at, possibly changed
OnlySuppliedChanged(before, after, data, updatable) ==
    /\ DOMAIN after = DOMAIN before \cup {"updated_at"}
    /\ \A f \in DOMAIN before \ {"updated_at"} :
           (f \notin updatable \/ ~Has(data, f)) => after[f] = before[f]

\* db2 is db1 but for the entry with the given id
OthersUnchanged(db1, db2, id) ==
    /\ Len(db2) = Len(db1)
    /\ \A i \in 1..Len(db1) : db1[i].id # id => db2[i] = db1[i]

\* C8: a successful update changes only the supplied fields: after
\* update_medication returns 200, each of times, dosage, instructions and
\* status that the body lacks keeps its value, id, patient, drug_name and
\* created_at of the target are unchanged, and so is every other entry of
\* medication_db; update_seizure_log likewise changes only occurred and
\* notes (and updated_at) of the one log it targets.
C8_UpdateChangesOnlySupplied ==
    [][/\ (request'.op = "update_medication" /\ response'.code = 200) =>
             \A data \in CrudUpdateMedicationBodies :
                 update_medication(request'.id, data) =>
                     /\ OthersUnchanged(medication_db, medication_db', request'.id)
                     /\ OnlySuppliedChanged(Entry(medication_db, request'.id),
                                            Entry(medication_db', request'.id), data,
                                            {"times", "dosage", "instructions", "status"})
                     /\ seizure_logs_db' = seizure_logs_db
       /\ (request'.op = "update_seizure_log" /\ response'.code = 200) =>
             \A data \in CrudUpdateLogBodies :
                 update_seizure_log(request'.id, data) =>
                     /\ OthersUnchanged(seizure_logs_db, seizure_logs_db', request'.id)
                     /\ OnlySuppliedChanged(Entry(seizure_logs_db, request'.id),
                                            Entry(seizure_logs_db', request'.id), data,
                                            {"occurred", "notes"})
                     /\ medication_db' = medication_db]_vars

\* a medication given a dosage by one update has kept it through a later
\* update of its instructions and status
C8_Witness ==
    /\ request.op = "update_medication"
    /\ response.code = 200
    /\ response.body.dosage = <<"x">>
    /\ response.body.status = S_paused
    /\ response.body.times = <<T_2000>>

\* a delete request for an id that no entry of db has is answered with 404
\* and leaves db as it was
UnknownDeleteRefused(op, db, db2) ==
    (request'.op = op /\ request'.id \notin Ids(db)) =>
        /\ response'.code = 404
        /\ db2 = db

\* C9 as stated: for each of appointments, medications and seizure logs, a
\* delete request for an id that no stored entity has is answered with 404
\* and leaves that store unchanged.
C9_UnknownDeleteIs404Everywhere ==
    [][/\ UnknownDeleteRefused("delete_appointment", appointments_db, appointments_db')
       /\ UnknownDeleteRefused("delete_medication", medication_db, medication_db')
       /\ UnknownDeleteRefused("delete_seizure_log", seizure_logs_db, seizure_logs_db')]_vars

\* C9: for medications and seizure logs, a delete request for an id that
\* no stored entity has is answered with 404 and leaves that store
\* unchanged in size and content.
C9_UnknownDeleteIs404 ==
    [][/\ UnknownDeleteRefused("delete_medication", medication_db, medication_db')
       /\ UnknownDeleteRefused("delete_seizure_log", seizure_logs_db, seizure_logs_db')]_vars

\* a delete of an id that no stored medication has was refused while a
\* medication was stored
C9_Witness ==
    /\ request.op = "delete_medication"
    /\ response.code = 404
    /\ medication_db # <<>>
    /\ request.id \notin Ids(medication_db)

\* db without its entries of the given id, the others in their order
Without(db, id) == SelectSeq(db, LAMBDA e : e.id # id)

\* a delete request for an id that an entry of db has succeeds and removes
\* that one entry
PresentDeleteRemoves(op, db, db2) ==
    (request'.op = op /\ request'.id \in Ids(db)) =>
        /\ response'.code = 200
        /\ db2 = Without(db, request'.id)
        /\ Len(db2) = Len(db) - 1

\* an id issued before and absent from db stays absent, and an update
\* (with a body that is not empty) or a delete of it is answered with 404
AbsentStaysAbsent(update_op, delete_op, db, db2) ==
    \A id \in (1..uuid_counter) \ Ids(db) :
        /\ id \notin Ids(db2)
        /\ (request'.op = delete_op /\ request'.id = id) => response'.code = 404
        /\ (request'.op = update_op /\ request'.id = id
              /\ response' # Response(400, "No data provided", <<>>))
               => response'.code = 404

UnknownIds(db) == UrlIds \ Ids(db)

\* an update request for an id that no entry of db has is answered with 404
\* and leaves db as it was
UnknownUpdateRefused(op, db, db2) ==
    (request'.op = op /\ request'.id \notin Ids(db)) =>
        /\ response'.code = 404
        /\ db2 = db

\* C11 as stated: an update addressed to an id that no stored entity has is
\* answered with 404 and changes nothing in the store, whatever the body.
C11_UnknownUpdateIs404WhateverBody ==
    [][/\ UnknownUpdateRefused("update_appointment", appointments_db, appointments_db')
       /\ UnknownUpdateRefused("update_medication", medication_db, medication_db')
       /\ UnknownUpdateRefused("update_seizure_log", seizure_logs_db,
                               seizure_logs_db')]_vars

\* a body of PUT /appointments/<id> whose status is a string that is an
\* appointment status once lower-cased
HasAppointmentStatus(data) ==
    /\ Has(data, "status")
    /\ IsStr(data["status"])
    /\ lower(Val(data["status"])) \in {S_scheduled, S_completed, S_cancelled, S_rescheduled}

\* C11: an update addressed to an id that no stored entity has changes
\* nothing in the store, whatever the body; update_medication and
\* update_seizure_log answer it with 404 whenever the body is not empty,
\* update_appointment whenever the body carries a valid status.
C11_UnknownUpdateIs404 ==
    /\ \A id \in UnknownIds(appointments_db), data \in UpdateAppointmentBodies :
           LET res == UpdateAppointmentResult(id, data)
           IN  /\ res.db = appointments_db
               /\ HasAppointmentStatus(data) => res.response.code = 404
    /\ \A id \in UnknownIds(medication_db), data \in UpdateMedicationBodies :
           LET res == UpdateMedicationResult(id, data)
           IN  /\ res.db = medication_db
               /\ data # NoData => res.response.code = 404
    /\ \A id \in UnknownIds(seizure_logs_db), data \in UpdateLogBodies :
           LET res == UpdateSeizureLogResult(id, data)
           IN  /\ res.db = seizure_logs_db
               /\ data # NoData => res.response.code = 404

\* an update of a medication that was deleted was answered with 404 while
\* another medication was stored
C11_Witness ==
    /\ request.op = "update_medication"
    /\ response.code = 404
    /\ request.id <= uuid_counter
    /\ medication_db # <<>>

\* the query strings whose days parameter is an integer, or is absent
IntegerDaysArgs ==
    {args \in ProgressArgs : "days" \in DOMAIN args => IntParses(args["days"])}

DaysOf(args) == IF "days" \in DOMAIN args THEN ParseInt(args["days"]) ELSE 7

\* the ordered rule of the progress label, in exact arithmetic:
\* recent <= (total / totalDays) * days * 0.5 is 2 * recent * totalDays <= total * days,
\* recent <= (total / totalDays) * days * 1.2 is 5 * recent * totalDays <= 6 * total * days
RuleLabel(totalDays, totalSeizures, recentSeizures, days) ==
    IF totalDays = 0 THEN "No Data"
    ELSE IF totalDays < 7 THEN "Insufficient Data"
    ELSE IF recentSeizures = 0 THEN "Improving"
    ELSE IF 2 * recentSeizures * totalDays <= totalSeizures * days THEN "Improving"
    ELSE IF 5 * recentSeizures * totalDays <= 6 * totalSeizures * days THEN "Stable"
    ELSE "Needs Attention"

\* C12: for every set of matched logs and every integer days, get_progress
\* answers with the label the ordered rule gives: "No Data" with
\* total_seizures 0, seven_day_trend 0 and seizure_rate 0 when no log
\* matches, "Insufficient Data" under 7 matched logs, "Improving" with no
\* recent seizure or at most half the expected ones, "Stable" up to 1.2
\* times the expected ones, "Needs Attention" otherwise.
C12_LabelFollowsOrderedRule ==
    (request.op = "get_progress" /\ request.args \in IntegerDaysArgs) =>
        LET matched == FilteredLogs(seizure_logs_db, strip(Arg(request.args, "patient")))
        IN  /\ response.code = 200
            /\ response.body.summary.progress =
                   RuleLabel(Len(matched), SumOccurred(matched),
                             response.body.summary.seven_day_trend, DaysOf(request.args))
            /\ matched = <<>> =>
                   /\ response.body.summary.total_seizures = 0
                   /\ response.body.summary.seven_day_trend = 0
                   /\ response.body.summary.seizure_rate = 0

\* the same, for the window lengths that reach no date before the calendar
LabelFollowsOrderedRuleInCalendar ==
    (request.op = "get_progress" /\ request.args \in IntegerDaysArgs
        /\ DaysOf(request.args) < 1000) => C12_LabelFollowsOrderedRule

\* the matched logs dated on one of the `days` calendar dates that end today
LogsOfLastDays(logs, days) ==
    SelectSeq(logs, LAMBDA log : /\ today - days < ParseDate(log.date)
                                 /\ ParseDate(log.date) <= today)

\* C13: seven_day_trend is the sum of occurred over exactly the matched logs
\* dated in the trailing period of `days` calendar dates that ends today;
\* no older log contributes.
C13_TrendCountsWindowOfDays ==
    (request.op = "get_progress" /\ response.code = 200) =>
        LET matched == FilteredLogs(seizure_logs_db, strip(Arg(request.args, "patient")))
        IN  response.body.summary.seven_day_trend =
                SumOccurred(LogsOfLastDays(matched, DaysOf(request.args)))

\* the request handled last is a prediction that carries a list of features
\* of a length other than 115
WrongLengthRequest ==
    /\ request.op = "predict_seizure"
    /\ Features(request.input).error = ""
    /\ IsList(Features(request.input).features)
    /\ Len(Val(Features(request.input).features)) # FeatureCount

\* C14 as claimed: a list of features of any length other than 115 is
\* answered with 400 "Invalid features" and neither scaler.transform nor
\* model.predict is invoked, the pair being loaded or not.
C14_WrongLengthIs400Always ==
    WrongLengthRequest =>
        /\ response.code = 400
        /\ response.error = "Invalid features"
        /\ request.invoked = <<>>

\* C14: a list of features of any length other than 115 never reaches
\* scaler.transform or model.predict; it is answered with 400 "Invalid
\* features" when the pair is loaded, by an earlier request or by this one,
\* and with 500 "Model not available" when it is not and cannot be.
C14_WrongLengthNeverReachesModel ==
    WrongLengthRequest =>
        /\ request.invoked = <<>>
        /\ IF model # None /\ scaler # None
           THEN response.code = 400 /\ response.error = "Invalid features"
           ELSE response.code = 500 /\ response.error = "Model not available"

\* 116 features were refused with 400 by the request that loaded the pair
C14_Witness ==
    /\ WrongLengthRequest
    /\ Len(Val(Features(request.input).features)) = FeatureCount + 1
    /\ request.retried
    /\ response.code = 400

\* the request carries 115 features that are all convertible to float
ValidRequest(input) ==
    /\ Features(input).error = ""
    /\ ValidFeatures(Features(input).features)
    /\ \A i \in 1..FeatureCount : Convertible(Val(Features(input).features)[i])

\* the request handled in this step was served by the model when it was valid
Served ==
    /\ response'.error # "Model not available"
    /\ ValidRequest(request'.input) =>
           /\ response'.code = 200
           /\ request'.invoked # <<>>

\* C15: while a file is missing and no load has succeeded, every
\* predict_seizure request is answered with 500 "Model not available" and
\* invokes nothing; the first request made once both files exist calls
\* load_model again, loads the pair and is served, and so is every later
\* request, whatever becomes of the files.
C15_UnavailableUntilFilesAppear ==
    [][request'.op = "predict_seizure" =>
          /\ (~load_succeeded /\ ~(ModelFiles \subseteq files)) =>
                 /\ response'.code = 500
                 /\ response'.error = "Model not available"
                 /\ request'.invoked = <<>>
                 /\ ~load_succeeded'
          /\ (~load_succeeded /\ ModelFiles \subseteq files) =>
                 /\ request'.retried
                 /\ load_succeeded'
                 /\ model' # None /\ scaler' # None
                 /\ Served
          /\ load_succeeded => (~request'.retried /\ Served)]_vars

\* a valid request was served by the pair it loaded itself, the files
\* having been missing when the application started
C15_Witness ==
    /\ request.op = "predict_seizure"
    /\ request.retried
    /\ ValidRequest(request.input)
    /\ response.code = 200

\* C16: once a load_model call has succeeded, no step assigns model or
\* scaler again and neither becomes None, however the requests handled at
\* the same time interleave.
C16_LoadedOnce ==
    [][load_succeeded =>
          /\ model' = model /\ scaler' = scaler
          /\ model' # None /\ scaler' # None]_vars

\* the request handled last is a prediction that was answered with 200
Predicted == request.op = "predict_seizure" /\ response.code = 200

\* the response the same request and the same answers of the model get
\* when the random source draws `choice`
WithChoice(choice) ==
    ServeResult(request.input, request.label, request.proba, choice).response

\* C17: a prediction run again on the same features and the same answers
\* of the model, with any other choice of the random source, returns the
\* same status, confidence and prediction.
C17_RandomnessIsCosmetic ==
    Predicted =>
        \A choice \in Choices :
            /\ WithChoice(choice).code = 200
            /\ WithChoice(choice).body.status = response.body.status
            /\ WithChoice(choice).body.confidence = response.body.confidence
            /\ WithChoice(choice).body.prediction = response.body.prediction

\* a prediction whose message another choice would have changed
C17_Witness ==
    /\ Predicted
    /\ \E choice \in Choices : WithChoice(choice).body.message # response.body.message

Range(seq) == {seq[i] : i \in 1..Len(seq)}

\* C18: a prediction answered with 200 has status "High seizure risk" and
\* one of the ten SEIZURE_RISK_MESSAGES exactly when the label of the model
\* is 1, and "Normal EEG pattern" and one of the ten NORMAL_EEG_MESSAGES
\* otherwise; prediction is the label, 0 or 1; confidence is the greatest
\* of the class probabilities.
C18_ResponseMapsModelOutput ==
    Predicted =>
        /\ Cardinality(Range(SEIZURE_RISK_MESSAGES)) = 10
        /\ Cardinality(Range(NORMAL_EEG_MESSAGES)) = 10
        /\ request.label = 1 <=>
               /\ response.body.status = "High seizure risk"
               /\ response.body.message \in Range(SEIZURE_RISK_MESSAGES)
        /\ request.label # 1 =>
               /\ response.body.status = "Normal EEG pattern"
               /\ response.body.message \in Range(NORMAL_EEG_MESSAGES)
        /\ response.body.prediction = request.label
        /\ response.body.prediction \in {0, 1}
        /\ response.body.confidence \in Range(request.proba)
        /\ \A p \in Range(request.proba) : p <= response.body.confidence

\* label 1 with class probabilities 0.13 and 0.87 was answered with
\* "High seizure risk" and confidence 0.87
C18_Witness ==
    /\ Predicted
    /\ request.label = 1
    /\ request.proba = <<13, 87>>
    /\ response.body.status = "High seizure risk"
    /\ response.body.confidence = 87

\* the bodies of PUT /appointments/<id> whose status is a string outside
\* scheduled, completed, cancelled, rescheduled once lower-cased
InvalidAppointmentStatusBodies ==
    {data \in UpdateAppointmentBodies :
        /\ Has(data, "status")
        /\ IsStr(data["status"])
        /\ lower(Val(data["status"])) \notin AppointmentStatuses}

C20_AppointmentsAreKept ==
    [][/\ Len(appointments_db') >= Len(appointments_db)
       /\ \A i \in 1..Len(appointments_db) :
              \A f \in {"id", "patient", "doctor", "date", "time", "created_at"} :
                  appointments_db'[i][f] = appointments_db[i][f]]_vars

\* a DELETE was sent for an appointment completed on a later day than it
\* was booked, and the appointment is still stored
C20_Witness ==
    /\ request.op = "delete_appointment"
    /\ request.id \in Ids(appointments_db)
    /\ Entry(appointments_db, request.id).status = S_completed
    /\ Entry(appointments_db, request.id).updated_at >
           Entry(appointments_db, request.id).created_at

\* the ids of a store are pairwise distinct and were all issued
DistinctIds(db) ==
    /\ \A i, j \in 1..Len(db) : db[i].id = db[j].id => i = j
    /\ Ids(db) \subseteq 1..uuid_counter

\* C21: the ids within each store are pairwise distinct in every reachable
\* state; the id a successful book_appointment returns is the one issued
\* last, different from every id issued before it, those of deleted
\* medications and seizure logs included; and the unfiltered list that
\* get_appointments gives right after the booking holds exactly one entry
\* with that id, equal field for field to the appointment returned.
C21_IdsUniqueAndRoundTrip ==
    /\ DistinctIds(appointments_db)
    /\ DistinctIds(medication_db)
    /\ DistinctIds(seizure_logs_db)
    /\ (request.op = "book_appointment" /\ response.code = 201) =>
           LET listed == GetAppointmentsResult(NoData).response.body.appointments
           IN  /\ response.body.id = uuid_counter
               /\ response.body.id \notin Ids(medication_db) \cup Ids(seizure_logs_db)
               /\ Cardinality({i \in 1..Len(listed) : listed[i].id = response.body.id}) = 1
               /\ \E i \in 1..Len(listed) : listed[i] = response.body

\* an appointment was booked after the medication or the seizure log that
\* had the id issued before it was deleted
C21_Witness ==
    /\ request.op = "book_appointment"
    /\ response.code = 201
    /\ response.body.id = 2
    /\ Len(appointments_db) = 1
    /\ medication_db = <<>>
    /\ seizure_logs_db = <<>>

\* the minutes after midnight that a time string accepted by '%H:%M' denotes
ClockMinutes(s) ==
    LET c == CHOOSE c \in Positions(s, ":") : TRUE
    IN  60 * DecVal(SubSeq(s, 1, c - 1)) + DecVal(SubSeq(s, c + 1, Len(s)))

\* appointments listed by ascending calendar date and, on one date, by
\* ascending clock time
InCalendarOrder(listed) ==
    \A i, j \in 1..Len(listed) :
        i < j =>
            \/ ParseDate(listed[i].date) < ParseDate(listed[j].date)
            \/ /\ ParseDate(listed[i].date) = ParseDate(listed[j].date)
               /\ ClockMinutes(listed[i].time) <= ClockMinutes(listed[j].time)

\* logs listed by descending calendar date
NewestFirst(listed) ==
    \A i, j \in 1..Len(listed) :
        i < j => ParseDate(listed[i].date) >= ParseDate(listed[j].date)

\* medications listed by ascending patient and, for one patient, by
\* ascending drug name
ByPatientThenDrug(listed) ==
    \A i, j \in 1..Len(listed) :
        i < j =>
            \/ StrLess(listed[i].patient, listed[j].patient)
            \/ /\ listed[i].patient = listed[j].patient
               /\ StrLessEq(listed[i].drug_name, listed[j].drug_name)

\* C22: get_appointments lists by ascending date and then ascending time
\* of day, dates and times compared as the calendar dates and clock times
\* they denote; get_progress lists its logs by descending calendar date;
\* get_medications lists by patient and then drug name, ascending.
C22_ListsAreOrdered ==
    /\ request.op = "get_appointments" => InCalendarOrder(response.body.appointments)
    /\ (request.op = "get_progress" /\ response.code = 200) =>
           NewestFirst(response.body.logs)
    /\ request.op = "get_medications" => ByPatientThenDrug(response.body.medications)

\* a name filter keeps an entity whose field contains the filter, letter
\* case ignored; a blank filter keeps every entity
NameMatches(filter, value) ==
    strip(filter) = <<>> \/ Contains(lower(strip(filter)), lower(value))

\* the elements of a list as a set
Listed(l) == {l[i] : i \in 1..Len(l)}

NoneTwice(l) == \A i, j \in 1..Len(l) : i # j => l[i].id # l[j].id

\* C23 as stated: get_appointments and get_medications return exactly the
\* stored entities that satisfy every supplied filter, patient and doctor
\* by case-insensitive substring and status by exact match of the stored
\* status value, none twice, with total the number returned.
C23_StatusMatchesExactly ==
    /\ request.op = "get_appointments" =>
           /\ Listed(response.body.appointments) =
                  {a \in Listed(appointments_db) :
                      /\ NameMatches(Arg(request.args, "patient"), a.patient)
                      /\ NameMatches(Arg(request.args, "doctor"), a.doctor)
                      /\ \/ strip(Arg(request.args, "status")) = <<>>
                         \/ strip(Arg(request.args, "status")) = a.status}
           /\ NoneTwice(response.body.appointments)
           /\ response.body.total = Len(response.body.appointments)
    /\ request.op = "get_medications" =>
           /\ Listed(response.body.medications) =
                  {m \in Listed(medication_db) :
                      /\ NameMatches(Arg(request.args, "patient"), m.patient)
                      /\ \/ strip(Arg(request.args, "status")) = <<>>
                         \/ strip(Arg(request.args, "status")) = m.status}
           /\ NoneTwice(response.body.medications)
           /\ response.body.total = Len(response.body.medications)

\* a status filter keeps an entity whose whole status equals the filter,
\* letter case ignored
StatusMatches(filter, value) ==
    strip(filter) = <<>> \/ lower(strip(filter)) = lower(value)

\* C23 (amended): get_appointments and get_medications return exactly the
\* stored entities that satisfy every supplied filter, each filter stripped
\* of surrounding blanks, patient and doctor by case-insensitive substring
\* and status by case-insensitive match of the whole stored status, none
\* twice, with total the number returned; an absent or blank filter
\* excludes nothing.
C23_ListsReturnTheMatches ==
    /\ request.op = "get_appointments" =>
           /\ Listed(response.body.appointments) =
                  {a \in Listed(appointments_db) :
                      /\ NameMatches(Arg(request.args, "patient"), a.patient)
                      /\ NameMatches(Arg(request.args, "doctor"), a.doctor)
                      /\ StatusMatches(Arg(request.args, "status"), a.status)}
           /\ NoneTwice(response.body.appointments)
           /\ response.body.total = Len(response.body.appointments)
    /\ request.op = "get_medications" =>
           /\ Listed(response.body.medications) =
                  {m \in Listed(medication_db) :
                      /\ NameMatches(Arg(request.args, "patient"), m.patient)
                      /\ StatusMatches(Arg(request.args, "status"), m.status)}
           /\ NoneTwice(response.body.medications)
           /\ response.body.total = Len(response.body.medications)

\* a capitalised status filter returns the completed appointment and leaves
\* out the scheduled one
C23_Witness ==
    /\ request.op = "get_appointments"
    /\ Arg(request.args, "status") = N_Completed
    /\ Len(appointments_db) = 2
    /\ response.body.total = 1
    /\ response.body.appointments[1].status = S_completed

ReadOps == {"get_progress", "get_appointments", "get_medications"}

\* C25: a read leaves the three stores as they were, order of insertion
\* included, whatever its filters and its days value: every step taken by
\* get_progress, get_appointments or get_medications keeps appointments_db,
\* medication_db and seizure_logs_db unchanged.
C25_ReadsAreReadOnly ==
    [][request'.op \in ReadOps =>
          UNCHANGED <<appointments_db, medication_db, seizure_logs_db>>]_vars

\* an unfiltered get_appointments has answered with the two appointments in
\* another order than the store holds them, the store still in the order of
\* booking
C25_Witness ==
    /\ request.op = "get_appointments"
    /\ request.args = NoData
    /\ Len(appointments_db) = 2
    /\ appointments_db[1].id < appointments_db[2].id
    /\ response.body.appointments = <<appointments_db[2], appointments_db[1]>>

\* C24: a create or update request that is refused for its input (a
\* required field missing or empty, a malformed date or time, an invalid
\* status, a wrongly typed field value) is answered with a 4xx code, never
\* a 5xx code, and leaves the store unchanged.
C24_InputErrorsAre4xx ==
    [][(/\ request'.op \in {"book_appointment", "update_appointment"}
        /\ response'.code >= 400) =>
           /\ response'.code < 500
           /\ appointments_db' = appointments_db]_vars

\* C26: log_seizure accepts a log dated today with 201 and refuses every
\* later date with 400, storing nothing; book_appointment accepts an
\* appointment dated today and refuses a date only when it is earlier than
\* today.
C26_TodayIsAccepted ==
    [][/\ request'.op = "log_seizure" =>
              \A data \in DatedLogBodies :
                  log_seizure(data) =>
                      /\ ParseDate(Val(data["date"])) > now =>
                             /\ response'.code = 400
                             /\ seizure_logs_db' = seizure_logs_db
                      /\ (/\ ParseDate(Val(data["date"])) = now
                          /\ ~LogExists(seizure_logs_db, Val(data["patient"]),
                                        Val(data["date"]))) =>
                             /\ response'.code = 201
                             /\ seizure_logs_db' =
                                    Append(seizure_logs_db, response'.body)
                             /\ response'.body.date = Val(data["date"])
       /\ request'.op = "book_appointment" =>
              \A data \in BoundaryBookBodies :
                  book_appointment(data) =>
                      /\ ParseDate(Val(data["date"])) < now =>
                             /\ response'.code = 400
                             /\ appointments_db' = appointments_db
                      /\ ParseDate(Val(data["date"])) >= now =>
                             /\ response'.code = 201
                             /\ appointments_db' =
                                    Append(appointments_db, response'.body)
                             /\ response'.body.date = Val(data["date"])]_vars

\* after midnight a log dated the new day, refused the day before, is
\* stored, and an appointment dated that day was booked
C26_Witness ==
    /\ now = Day0 + 1
    /\ request.op = "log_seizure"
    /\ response.code = 201
    /\ ParseDate(response.body.date) = now
    /\ seizure_logs_db = <<response.body>>
    /\ Len(appointments_db) = 1
    /\ ParseDate(appointments_db[1].date) = now
    /\ appointments_db[1].created_at = now

\* C27: the times that schedule_medication stores are in chronological
\* order, hour and then minute non-decreasing, for every times list that
\* passes the '%H:%M' check.
C27_TimesChronological ==
    (request.op = "schedule_medication" /\ response.code = 201) =>
        \A i, j \in 1..Len(response.body.times) :
            i < j => ClockMinutes(response.body.times[i]) <=
                         ClockMinutes(response.body.times[j])

\* C28: under every interleaving of two log_seizure handlers, each a scan
\* of the store followed by an append, the store never holds two logs of
\* one patient and one date: at most one of two requests for the same
\* patient and date appends, the other is answered 409.
C28_OneLogPerPatientAndDate ==
    \A i, j \in 1..Len(seizure_logs_db) :
        i < j => <<seizure_logs_db[i].patient, seizure_logs_db[i].date>> #
                     <<seizure_logs_db[j].patient, seizure_logs_db[j].date>>

\* C29: under every interleaving of the loop that finds the position and
\* of the del at that position, a delete handler that returns while the
\* entity its URL addresses is stored is answered 200 and has removed that
\* entity and no other; so two concurrent deletes of different stored ids
\* remove exactly the two addressed entities.
C29_DeleteRemovesTheAddressed ==
    [][\A t \in 1..MaxThreads :
           (/\ frames[t].op \in DeleteOps
            /\ frames'[t] = IdleFrame
            /\ frames[t].id \in Ids(StoreOf(frames[t].op))) =>
               /\ response'.code = 200
               /\ Ids(medication_db') =
                      Ids(medication_db) \
                          (IF frames[t].op = "delete_medication"
                           THEN {frames[t].id} ELSE {})
               /\ Ids(seizure_logs_db') =
                      Ids(seizure_logs_db) \
                          (IF frames[t].op = "delete_seizure_log"
                           THEN {frames[t].id} ELSE {})]_vars

\* the logs that a patient filter of get_progress matches
MatchedLogs(args) ==
    SelectSeq(seizure_logs_db,
              LAMBDA log : NameMatches(Arg(args, "patient"), log.patient))

\* the response of get_progress carries a summary computed from logs
HasSummaryOfLogs ==
    /\ request.op = "get_progress"
    /\ response.code = 200
    /\ "total_days_logged" \in DOMAIN response.body.summary

\* C30 as stated: in every get_progress response that summarises logs,
\* total_days_logged is the number of distinct calendar dates among the
\* logs that the patient filter matches.
C30_TotalDaysAreDistinctDates ==
    HasSummaryOfLogs =>
        response.body.summary.total_days_logged =
            Cardinality({ParseDate(MatchedLogs(request.args)[i].date) :
                            i \in 1..Len(MatchedLogs(request.args))})

\* C30 (amended): a get_progress request answered 200 summarises logs
\* exactly when its patient filter (case-insensitive substring, every log
\* when absent) matches some log; total_days_logged is then the number of
\* matched logs, and seizure_rate is the percentage of those logs that
\* record a seizure, to the hundredth, between 0 and 100.
C30_TotalDaysAreMatchedLogs ==
    (request.op = "get_progress" /\ response.code = 200) =>
        LET matched == MatchedLogs(request.args)
            rate == response.body.summary.seizure_rate
            gap == rate * Len(matched) - 10000 * SumOccurred(matched)
        IN  /\ HasSummaryOfLogs <=> matched # <<>>
            /\ HasSummaryOfLogs =>
                   /\ response.body.summary.total_days_logged = Len(matched)
                   /\ rate >= 0 /\ rate <= 10000
                   /\ gap <= Len(matched) /\ 0 - gap <= Len(matched)

\* an unfiltered get_progress has counted two logs of two patients for one
\* calendar date as two days, one of them with a seizure
C30_Witness ==
    /\ HasSummaryOfLogs
    /\ request.args = NoData
    /\ Len(seizure_logs_db) = 2
    /\ seizure_logs_db[1].patient # seizure_logs_db[2].patient
    /\ ParseDate(seizure_logs_db[1].date) = ParseDate(seizure_logs_db[2].date)
    /\ response.body.summary.total_days_logged = 2
    /\ response.body.summary.seizure_rate = 5000

====
